---- MODULE Spec2Model ----
(***************************************************************************)
(* Discovery-and-validation pipeline of the ContentMark CLI.               *)
(*                                                                         *)
(*   ContentMarkValidator  (src/src/generator.ts, lines 649-938)           *)
(*   URLChecker            (src/src/url-checker.ts, lines 15-388)          *)
(*                                                                         *)
(* A document text is a record of value classes: each field holds the      *)
(* class of the JSON value found at that place ("absent", a well-formed    *)
(* value, or one of the ill-formed shapes the code distinguishes).         *)
(* Exceptions are modelled explicitly: an operation that throws yields a   *)
(* record with thrown = TRUE, and the try/catch blocks of the source       *)
(* decide where it is converted into data.                                 *)
(***************************************************************************)
EXTENDS Integers, Sequences, FiniteSets, TLC

\* ------------------------------------------------------------------------
\* Bounds of the model
\* ------------------------------------------------------------------------
MaxLinks == 2
MaxUrls == 6
MaxSchemaFetches == 2
MaxPipelineFetches == 1
MaxRacers == 2
MaxItems == 2
MaxLoopSteps == 3
MaxThrowUrls == 4

\* ------------------------------------------------------------------------
\* JSON value classes
\* ------------------------------------------------------------------------
Absent == "absent"

\* JavaScript truthiness of a value class: undefined, "", 0, false and null
\* are falsy, everything else is truthy.
Truthy(v) == v \notin {Absent, "empty", "false", "null", "zero"}

NoPolicy ==
  [present |-> FALSE, canSummarize |-> Absent, canTrain |-> Absent,
   canQuote |-> Absent, mustAttribute |-> Absent, attributionTemplate |-> Absent]

OkPolicy ==
  [present |-> TRUE, canSummarize |-> "true", canTrain |-> "false",
   canQuote |-> "true", mustAttribute |-> "true", attributionTemplate |-> Absent]

NoConsultation == [present |-> FALSE, available |-> Absent, bookingUrl |-> Absent]

NoServices == [present |-> FALSE, isArray |-> FALSE, items |-> <<>>]

NoSubscription == [present |-> FALSE, url |-> Absent]

NoMonetization ==
  [present |-> FALSE, tipJar |-> Absent, consultation |-> NoConsultation,
   services |-> NoServices, subscription |-> NoSubscription]

NoVisibility == [present |-> FALSE, aiDiscovery |-> Absent, preferredQueries |-> Absent]

NoAccess ==
  [present |-> FALSE, type |-> Absent, loginUrl |-> Absent, subscriptionUrl |-> Absent]

NoRenderHints == [present |-> FALSE, callToActionUrl |-> Absent]

NoFeeds == [present |-> FALSE, isArray |-> FALSE, items |-> <<>>]

\* The empty JSON object {}: every member absent.
EmptyObject ==
  [syntax |-> "object", version |-> Absent, siteName |-> Absent,
   defaultUsagePolicy |-> NoPolicy, lastModified |-> Absent,
   description |-> Absent, monetization |-> NoMonetization,
   visibility |-> NoVisibility, access |-> NoAccess, feeds |-> NoFeeds,
   renderHints |-> NoRenderHints, businessOptimization |-> Absent,
   aiGuidance |-> Absent]

\* Text that JSON.parse rejects, the text "null" and a scalar such as "42".
DocGarbage == [EmptyObject EXCEPT !.syntax = "bad"]
DocNull == [EmptyObject EXCEPT !.syntax = "null"]
DocScalar == [EmptyObject EXCEPT !.syntax = "scalar"]

\* The manifest of the test "should validate a valid basic manifest".
DocBasic ==
  [EmptyObject EXCEPT !.version = "semver", !.siteName = "ok",
                      !.defaultUsagePolicy = OkPolicy, !.lastModified = "iso"]

\* {"version":"1.0.0"}
DocVersionOnly == [EmptyObject EXCEPT !.version = "semver"]

\* A numeric version: data.version.match is not a function.
DocNumVersion == [DocBasic EXCEPT !.version = "number"]

\* monetization.services is a string: services.forEach is not a function.
DocBadServices ==
  [DocBasic EXCEPT !.monetization =
     [NoMonetization EXCEPT !.present = TRUE, !.tipJar = "rel",
        !.services = [present |-> TRUE, isArray |-> FALSE, items |-> <<>>]]]

\* canSummarize false with aiDiscovery enhanced: a warning, still valid.
DocConflict ==
  [DocBasic EXCEPT !.defaultUsagePolicy = [OkPolicy EXCEPT !.canSummarize = "false"],
                   !.visibility = [present |-> TRUE, aiDiscovery |-> "enhanced",
                                   preferredQueries |-> Absent]]

\* access.type authenticated without loginUrl, and a relative feed URL.
DocAuthNoLogin ==
  [DocBasic EXCEPT !.access = [NoAccess EXCEPT !.present = TRUE,
                                                 !.type = "authenticated"],
                   !.feeds = [present |-> TRUE, isArray |-> TRUE,
                              items |-> <<[url |-> "abs"], [url |-> "rel"]>>]]

Docs ==
  {DocGarbage, DocNull, DocScalar, DocBasic, DocVersionOnly, DocNumVersion,
   DocBadServices, DocConflict, DocAuthNoLogin}

\* ------------------------------------------------------------------------
\* The manifests validate is applied to (ContentMarkManifest, generator.ts 5-63)
\* ------------------------------------------------------------------------
\* version: absent, "1.0.0", "v1.0" / "1.0.0-beta", "", and the number 1.
VersionValues == {Absent, "semver", "badformat", "empty", "number"}

\* siteName: absent, a name, 201 characters, "", and a number.
SiteNameValues == {Absent, "ok", "long", "empty", "number"}

\* lastModified: absent, an ISO 8601 timestamp, and "yesterday".
LastModifiedValues == {Absent, "iso", "notdate"}

\* A member of defaultUsagePolicy: a boolean, absent, or the string "yes".
MemberValues == {"true", "false", Absent, "string"}

PolicyValues ==
  {NoPolicy} \cup
  {[OkPolicy EXCEPT !.canSummarize = a, !.canTrain = b, !.canQuote = c,
                    !.mustAttribute = e] :
     a \in MemberValues, b \in MemberValues, c \in MemberValues, e \in MemberValues}

\* A URL-valued member: absent, "https://example.com/x", "/x", "http://", "".
UrlValues == {Absent, "abs", "rel", "malformed", "empty"}

\* The url of an element of feeds or of monetization.services.
ItemUrlValues == {"abs", "rel", "empty"}

\* Lists of at most MaxItems elements.
ItemLists ==
  UNION {{[i \in 1..n |-> [url |-> f[i]]] : f \in [1..n -> ItemUrlValues]} :
           n \in 0..MaxItems}

\* Manifests that differ in the four required fields only.
RequiredManifests ==
  {[EmptyObject EXCEPT !.version = v, !.siteName = n, !.defaultUsagePolicy = p,
                       !.lastModified = l] :
     v \in VersionValues, n \in SiteNameValues, p \in PolicyValues,
     l \in LastModifiedValues}

\* The basic manifest with feeds and monetization added.
UrlManifests ==
  {[DocBasic EXCEPT
      !.feeds = [present |-> TRUE, isArray |-> TRUE, items |-> fs],
      !.monetization =
        [NoMonetization EXCEPT
           !.present = TRUE, !.tipJar = t,
           !.consultation = [present |-> TRUE, available |-> "false", bookingUrl |-> b],
           !.services = [present |-> TRUE, isArray |-> TRUE, items |-> ss]]] :
     fs \in ItemLists, ss \in ItemLists, t \in UrlValues,
     b \in {Absent, "abs", "rel", "empty"}}

\* The basic manifest with access, a subscription and a call to action.
NestedUrlManifests ==
  {[DocBasic EXCEPT
      !.access = [present |-> TRUE, type |-> ty, loginUrl |-> lu, subscriptionUrl |-> su],
      !.monetization = [NoMonetization EXCEPT
                          !.present = TRUE,
                          !.subscription = [present |-> TRUE, url |-> mu]],
      !.renderHints = [present |-> TRUE, callToActionUrl |-> cu]] :
     ty \in {"public", "authenticated", "paywall"},
     lu \in {Absent, "abs", "rel"}, su \in {Absent, "abs", "rel"},
     mu \in {"abs", "rel"}, cu \in {"abs", "malformed"}}

\* The basic manifest with the members the cross-field rules read, and a
\* version that may be wrong.
CrossFieldManifests ==
  {[DocBasic EXCEPT
      !.version = v,
      !.defaultUsagePolicy = [OkPolicy EXCEPT !.canSummarize = cs, !.mustAttribute = ma,
                                              !.attributionTemplate = at],
      !.visibility = vis,
      !.access = acc,
      !.monetization = mon] :
     v \in {"semver", "badformat", "number"},
     cs \in {"true", "false"}, ma \in {"true", "false"}, at \in {Absent, "ok", "empty"},
     vis \in {NoVisibility} \cup
             {[NoVisibility EXCEPT !.present = TRUE, !.aiDiscovery = a] :
                a \in {"standard", "enhanced"}},
     acc \in {NoAccess} \cup
             {[NoAccess EXCEPT !.present = TRUE, !.type = ty, !.loginUrl = lu] :
                ty \in {"public", "authenticated"}, lu \in {Absent, "abs", "empty"}},
     mon \in {NoMonetization} \cup
             {[NoMonetization EXCEPT
                 !.present = TRUE,
                 !.consultation = [present |-> TRUE, available |-> av, bookingUrl |-> b]] :
                av \in {"true", "false", Absent}, b \in {Absent, "abs"}}}

Manifests ==
  Docs \cup RequiredManifests \cup UrlManifests \cup NestedUrlManifests
       \cup CrossFieldManifests

\* ------------------------------------------------------------------------
\* ValidationResult (generator.ts 641-647)
\* ------------------------------------------------------------------------
NoManifest == [EmptyObject EXCEPT !.syntax = "none"]

\* generator.ts 685-690: the result validate starts from.
EmptyResult ==
  [valid |-> FALSE, errors |-> <<>>, warnings |-> <<>>, suggestions |-> <<>>,
   manifest |-> NoManifest, thrown |-> FALSE, message |-> ""]

\* A promise that rejects with an Error carrying msg.
Rejected(msg) == [EmptyResult EXCEPT !.thrown = TRUE, !.message = msg]

PushError(r, e) == [r EXCEPT !.errors = Append(@, e)]
PushWarning(r, w) == [r EXCEPT !.warnings = Append(@, w)]
PushSuggestion(r, s) == [r EXCEPT !.suggestions = Append(@, s)]
Throw(r, msg) == [r EXCEPT !.thrown = TRUE, !.message = msg]

\* ------------------------------------------------------------------------
\* Schema documents
\* ------------------------------------------------------------------------
\* "builtin"   the fallback of getBuiltInSchema
\* "minimal"   a remote schema with the rules of the built-in one
\* "open"      the remote schema {} that accepts every document
\* "malformed" a remote body that is JSON but not a schema: compile throws
NoSchema == "none"
RemoteSchemas == {"minimal", "open", "malformed"}
Schemas == RemoteSchemas \cup {"builtin"}

\* generator.ts 916-937
getBuiltInSchema == "builtin"

\* The rules a schema document states: the built-in schema and a remote
\* copy of it state the same rules.
SchemaRules(schema) ==
  IF schema \in {"builtin", "minimal"} THEN "required-four" ELSE schema

PolicyMembers == <<"canSummarize", "canTrain", "canQuote", "mustAttribute">>
PolicyMember(p, i) ==
  CASE i = 1 -> p.canSummarize [] i = 2 -> p.canTrain
    [] i = 3 -> p.canQuote [] i = 4 -> p.mustAttribute

RECURSIVE PushAll(_, _)
PushAll(r, es) == IF es = <<>> THEN r ELSE PushAll(PushError(r, Head(es)), Tail(es))

\* Errors ajv reports for data against the rules of generator.ts 918-936,
\* formatted as in generator.ts 709-712 (instancePath, else schemaPath).
AjvRequiredFour(d) ==
  IF d.syntax # "object" THEN <<"#/type: must be object">>
  ELSE
    (IF d.version = Absent
       THEN <<"#/required: must have required property 'version'">> ELSE <<>>)
    \o (IF d.siteName = Absent
       THEN <<"#/required: must have required property 'siteName'">> ELSE <<>>)
    \o (IF ~d.defaultUsagePolicy.present
       THEN <<"#/required: must have required property 'defaultUsagePolicy'">> ELSE <<>>)
    \o (IF d.lastModified = Absent
       THEN <<"#/required: must have required property 'lastModified'">> ELSE <<>>)
    \o (IF d.version = "number" THEN <<"/version: must be string">>
        ELSE IF d.version \in {"badformat", "empty"}
          THEN <<"/version: must match pattern">> ELSE <<>>)
    \o (IF d.siteName = "number" THEN <<"/siteName: must be string">>
        ELSE IF d.siteName = "empty"
          THEN <<"/siteName: must NOT have fewer than 1 characters">>
        ELSE IF d.siteName = "long"
          THEN <<"/siteName: must NOT have more than 200 characters">> ELSE <<>>)
    \o (IF ~d.defaultUsagePolicy.present THEN <<>>
        ELSE
          LET p == d.defaultUsagePolicy
              Member(i) ==
                IF PolicyMember(p, i) = Absent
                  THEN <<"/defaultUsagePolicy: must have required property '"
                         \o PolicyMembers[i] \o "'">>
                ELSE IF PolicyMember(p, i) \notin {"true", "false"}
                  THEN <<"/defaultUsagePolicy/" \o PolicyMembers[i]
                         \o ": must be boolean">>
                ELSE <<>>
          IN Member(1) \o Member(2) \o Member(3) \o Member(4))
    \o (IF d.lastModified = "notdate"
          THEN <<"/lastModified: must match format \"date-time\"">> ELSE <<>>)

\* generator.ts 705-713: compile the schema, validate, push one error per
\* violation. Compiling a body that is not a schema throws.
AjvStep(d, schema, r) ==
  IF r.thrown THEN r
  ELSE IF SchemaRules(schema) = "malformed" THEN Throw(r, "schema is invalid")
  ELSE IF SchemaRules(schema) = "open" THEN r
  ELSE PushAll(r, AjvRequiredFour(d))

\* ------------------------------------------------------------------------
\* The hand-written structural pass (generator.ts 768-871)
\* ------------------------------------------------------------------------
\* new URL(url) in checkURL (generator.ts 813-819) accepts absolute URLs only.
IsAbsoluteURL(u) == u = "abs"

\* generator.ts 813-819
checkURL(r, u, fieldName) ==
  IF IsAbsoluteURL(u) THEN r
  ELSE PushError(r, fieldName \o " must be a valid absolute URL")

RECURSIVE CheckItemURLs(_, _, _, _)
\* generator.ts 823-827 and 839-843: forEach over the list, index from 0.
CheckItemURLs(r, items, i, prefix) ==
  IF i > Len(items) THEN r
  ELSE CheckItemURLs(
         IF Truthy(items[i].url)
           THEN checkURL(r, items[i].url, prefix \o "[" \o ToString(i - 1) \o "].url")
           ELSE r,
         items, i + 1, prefix)

\* generator.ts 812-846
validateURLs(d, r) ==
  IF r.thrown THEN r
  ELSE
    LET r1 == IF d.feeds.present /\ d.feeds.isArray
                THEN CheckItemURLs(r, d.feeds.items, 1, "feeds") ELSE r
        m == d.monetization
        r2 == IF m.present /\ Truthy(m.tipJar)
                THEN checkURL(r1, m.tipJar, "monetization.tipJar") ELSE r1
        r3 == IF m.present /\ m.consultation.present /\ Truthy(m.consultation.bookingUrl)
                THEN checkURL(r2, m.consultation.bookingUrl,
                              "monetization.consultation.bookingUrl")
                ELSE r2
    IN IF m.present /\ m.services.present
         THEN IF m.services.isArray
                THEN CheckItemURLs(r3, m.services.items, 1, "monetization.services")
                ELSE Throw(r3, "data.monetization.services.forEach is not a function")
         ELSE r3

\* generator.ts 848-871
checkLogicalConsistency(d, r) ==
  IF r.thrown THEN r
  ELSE
    LET p == d.defaultUsagePolicy
        c == d.monetization.consultation
        r1 == IF p.canSummarize = "false" /\ d.visibility.aiDiscovery = "enhanced"
                THEN PushWarning(r, "Conflicting settings: canSummarize is false but aiDiscovery is enhanced")
                ELSE r
        r2 == IF Truthy(p.mustAttribute) /\ ~Truthy(p.attributionTemplate)
                THEN PushWarning(r1, "Attribution required but no attributionTemplate provided")
                ELSE r1
        r3 == IF d.access.type = "authenticated" /\ ~Truthy(d.access.loginUrl)
                THEN PushError(r2, "access.loginUrl is required when type is \"authenticated\"")
                ELSE r2
    IN IF Truthy(c.available) /\ ~Truthy(c.bookingUrl)
         THEN PushWarning(r3, "Consultation marked as available but no bookingUrl provided")
         ELSE r3

RECURSIVE CheckPolicyMembers(_, _, _)
\* generator.ts 788-792
CheckPolicyMembers(r, p, i) ==
  IF i > Len(PolicyMembers) THEN r
  ELSE CheckPolicyMembers(
         IF PolicyMember(p, i) \notin {"true", "false"}
           THEN PushError(r, "defaultUsagePolicy." \o PolicyMembers[i] \o " must be a boolean")
           ELSE r,
         p, i + 1)

\* generator.ts 770-774: a truthy version that is not a string has no match().
CheckVersion(d, r) ==
  IF r.thrown THEN r
  ELSE IF ~Truthy(d.version) THEN PushError(r, "Missing required field: version")
  ELSE IF d.version = "number" THEN Throw(r, "data.version.match is not a function")
  ELSE IF d.version # "semver"
    THEN PushError(r, "Version must follow semantic versioning (e.g., \"1.0.0\")")
  ELSE r

\* generator.ts 776-780
CheckSiteName(d, r) ==
  IF r.thrown THEN r
  ELSE IF ~Truthy(d.siteName) THEN PushError(r, "Missing required field: siteName")
  ELSE IF d.siteName = "long" THEN PushError(r, "siteName must be 200 characters or less")
  ELSE r

\* generator.ts 782-793
CheckPolicy(d, r) ==
  IF r.thrown THEN r
  ELSE IF ~d.defaultUsagePolicy.present
    THEN PushError(r, "Missing required field: defaultUsagePolicy")
  ELSE CheckPolicyMembers(r, d.defaultUsagePolicy, 1)

\* generator.ts 795-803: new Date(x) never throws, so a present value passes.
CheckLastModified(d, r) ==
  IF r.thrown THEN r
  ELSE IF ~Truthy(d.lastModified) THEN PushError(r, "Missing required field: lastModified")
  ELSE r

\* generator.ts 768-810: reading a member of null throws.
addCustomValidation(d, r) ==
  IF r.thrown THEN r
  ELSE IF d.syntax = "null" THEN Throw(r, "Cannot read properties of null")
  ELSE checkLogicalConsistency(d,
         validateURLs(d,
           CheckLastModified(d, CheckPolicy(d, CheckSiteName(d, CheckVersion(d, r))))))

NoSuggestions(d, r) == r

\* generator.ts 873-914
addSuggestions(d, r) ==
  IF r.thrown THEN r
  ELSE
    LET m == d.monetization
        v == d.visibility
        r1 == IF ~m.present
                THEN PushSuggestion(r, "Consider adding monetization options to benefit from AI traffic")
                ELSE IF ~Truthy(m.tipJar) /\ ~Truthy(m.consultation.available)
                  THEN PushSuggestion(r, "Consider adding a tip jar for easy monetization")
                  ELSE r
        r2 == IF ~v.present
                THEN PushSuggestion(r1, "Consider adding visibility settings to optimize AI discoverability")
                ELSE IF v.preferredQueries \in {Absent, "empty"}
                  THEN PushSuggestion(r1, "Add preferredQueries to improve AI recommendation targeting")
                  ELSE r1
        r3 == IF d.defaultUsagePolicy.canTrain = "true"
                THEN PushSuggestion(r2, "Consider whether allowing AI training aligns with your content strategy")
                ELSE r2
        r4 == IF d.description \in {Absent, "empty", "short"}
                THEN PushSuggestion(r3, "Add a detailed description to help AI understand your content focus")
                ELSE r3
        r5 == IF ~d.feeds.present \/ (d.feeds.isArray /\ d.feeds.items = <<>>)
                THEN PushSuggestion(r4, "Consider adding content feeds for better AI integration")
                ELSE r4
        r6 == IF Truthy(m.consultation.available) /\ ~Truthy(d.businessOptimization)
                THEN PushSuggestion(r5, "Add businessOptimization to target specific audiences and service areas")
                ELSE r5
    IN IF v.aiDiscovery = "enhanced" /\ ~Truthy(d.aiGuidance)
         THEN PushSuggestion(r6, "Add aiGuidance to control how AI presents your content")
         ELSE r6

\* ------------------------------------------------------------------------
\* validate, after the schema has been resolved (generator.ts 685-727)
\* ------------------------------------------------------------------------
JsonParseLenient(text) == [ok |-> TRUE, data |-> text]

\* JSON.parse (generator.ts 696): the parsed value, or a SyntaxError.
JsonParse(text) ==
  IF text.syntax = "bad"
    THEN [ok |-> FALSE, data |-> NoManifest]
    ELSE [ok |-> TRUE, data |-> text]

ValidityIgnoringNothing(r) == Len(r.errors) = 0 /\ Len(r.warnings) = 0

\* generator.ts 721
Validity(r) == Len(r.errors) = 0

ValidateRethrow(r) == r

\* generator.ts 724-727: the catch of validate turns an exception into data.
ValidateCatch(r) ==
  [r EXCEPT !.errors = Append(@, "Validation failed: " \o r.message),
            !.thrown = FALSE, !.message = ""]

\* generator.ts 685-727
ValidateWith(text, schema) ==
  LET parsed == JsonParse(text)
  IN IF ~parsed.ok
       THEN PushError(EmptyResult, "Invalid JSON: Unexpected token")
       ELSE
         LET r0 == [EmptyResult EXCEPT !.manifest = parsed.data]
             r3 == addSuggestions(parsed.data,
                     addCustomValidation(parsed.data, AjvStep(parsed.data, schema, r0)))
         IN IF r3.thrown THEN ValidateCatch(r3)
            ELSE [r3 EXCEPT !.valid = Validity(r3)]

\* ------------------------------------------------------------------------
\* URLs
\* ------------------------------------------------------------------------
\* A URL string is split in scheme, host and path; host "" is a string that
\* new URL() rejects.
NoUrl == [scheme |-> "", host |-> "", path |-> ""]

InputUrls ==
  {[scheme |-> "", host |-> "example.com", path |-> ""],
   [scheme |-> "https://", host |-> "example.com", path |-> "/blog"],
   [scheme |-> "http://", host |-> "", path |-> ""]}

KeepUrl(u) == u

\* url-checker.ts 28-30 and generator.ts 733-735
NormalizeUrl(u) ==
  IF u.scheme \notin {"http://", "https://"} THEN [u EXCEPT !.scheme = "https://"] ELSE u

\* new URL(url): throws on a string without a host; toString() of the
\* parsed URL has "/" for an empty path.
ParseUrl(u) ==
  IF u.host = "" THEN [ok |-> FALSE, url |-> NoUrl]
  ELSE [ok |-> TRUE, url |-> [u EXCEPT !.path = IF @ = "" THEN "/" ELSE @]]

\* new URL('/.well-known/contentmark.json', base): url-checker.ts 74
WellKnownUrl(base) == [base EXCEPT !.path = "/.well-known/contentmark.json"]

\* A manifest reference found in a page or in a Link header:
\*   "none" the element has no href, "abs" an absolute URL, "rel" a path,
\*   "bad" a relative reference that new URL(ref, base) rejects (//[ ).
RefKinds == {"none", "abs", "rel", "bad"}

\* url-checker.ts 154-159 and 227-232
ResolveRef(kind, base) ==
  CASE kind = "abs" ->
         [ok |-> TRUE, url |-> [scheme |-> "https://", host |-> "cdn.example.net",
                                path |-> "/contentmark.json"]]
    [] kind = "rel" -> [ok |-> TRUE, url |-> [base EXCEPT !.path = "/cm/manifest.json"]]
    [] OTHER -> [ok |-> FALSE, url |-> NoUrl]

\* ------------------------------------------------------------------------
\* CheckResult (url-checker.ts 3-13)
\* ------------------------------------------------------------------------
\* fields lists the members that the object literal sets.
NoCheck ==
  [found |-> FALSE, fields |-> {"found"}, method |-> "", foundAt |-> NoUrl,
   discoveryMethod |-> "", manifestUrl |-> NoUrl, httpStatus |-> 0,
   valid |-> FALSE, errors |-> <<>>, manifest |-> NoManifest,
   thrown |-> FALSE, message |-> ""]

\* { found: false }
NotFound == NoCheck

\* { found: false, errors: [message] }
NotFoundWith(msg) == [NoCheck EXCEPT !.fields = {"found", "errors"}, !.errors = <<msg>>]

\* url-checker.ts 90-100, 176-186, 249-259
FoundResult(method, foundAt, murl, status, validation) ==
  [found |-> TRUE,
   fields |-> {"found", "method", "foundAt", "discoveryMethod", "manifestUrl",
               "httpStatus", "valid", "errors", "manifest"},
   method |-> method, foundAt |-> foundAt, discoveryMethod |-> method,
   manifestUrl |-> murl, httpStatus |-> status, valid |-> validation.valid,
   errors |-> validation.errors, manifest |-> validation.manifest,
   thrown |-> FALSE, message |-> ""]

HttpStatusText(status) == "HTTP " \o ToString(status) \o ": Error"

\* url-checker.ts 109-117
HttpErrorResult(murl, status) ==
  [NoCheck EXCEPT !.found = TRUE,
     !.fields = {"found", "foundAt", "discoveryMethod", "manifestUrl",
                 "httpStatus", "valid", "errors"},
     !.foundAt = murl, !.discoveryMethod = "well-known", !.manifestUrl = murl,
     !.httpStatus = status, !.valid = FALSE, !.errors = <<HttpStatusText(status)>>]

\* Reading a property of a CheckResult: a member the literal did not set
\* reads as undefined.
ReadMember(res, name, value) == IF name \in res.fields THEN value ELSE "undefined"

\* formatters/summary.ts 43: the line `Method: ${result.method}`
MethodLine(res) == "Method: " \o ReadMember(res, "method", res.method)

CheckWebsiteRethrow(msg) ==
  [NoCheck EXCEPT !.thrown = TRUE, !.message = "Failed to check website: " \o msg]

\* url-checker.ts 65-70
CheckWebsiteCatch(msg) == NotFoundWith(msg)

\* generator.ts 747-752
FetchFailedResult(status) ==
  PushError(EmptyResult, "Failed to fetch manifest: HTTP " \o ToString(status))

\* generator.ts 758-765
NetworkErrorResult(msg) == PushError(EmptyResult, "Network error: " \o msg)

\* ------------------------------------------------------------------------
\* URLChecker.analyzeManifest (url-checker.ts 273-317)
\* ------------------------------------------------------------------------
NoAnalysis ==
  [thrown |-> FALSE, message |-> "", returned |-> FALSE,
   basicInfo |-> [siteName |-> Absent, description |-> Absent, version |-> Absent,
                  lastModified |-> Absent],
   policies |-> NoPolicy,
   monetization |-> [hasMonetization |-> FALSE, tipJar |-> Absent,
                     consultation |-> NoConsultation, services |-> NoServices,
                     subscription |-> NoSubscription],
   optimization |-> [hasVisibility |-> FALSE, aiDiscovery |-> Absent,
                     preferredQueries |-> Absent]]

\* url-checker.ts 281: !result.manifest holds for undefined and for null.
HasManifest(res) == res.manifest.syntax \notin {"none", "null"}

AnalysisOfAnyManifest(res) ==
  IF ~res.found \/ ~HasManifest(res)
    THEN [NoAnalysis EXCEPT !.thrown = TRUE, !.message = "No ContentMark manifest found"]
    ELSE
      LET m == res.manifest
      IN [thrown |-> FALSE, message |-> "", returned |-> TRUE,
          basicInfo |-> [siteName |-> m.siteName, description |-> m.description,
                         version |-> m.version, lastModified |-> m.lastModified],
          policies |-> m.defaultUsagePolicy,
          monetization |-> [hasMonetization |-> m.monetization.present,
                            tipJar |-> m.monetization.tipJar,
                            consultation |-> m.monetization.consultation,
                            services |-> m.monetization.services,
                            subscription |-> m.monetization.subscription],
          optimization |-> [hasVisibility |-> m.visibility.present,
                            aiDiscovery |-> m.visibility.aiDiscovery,
                            preferredQueries |-> m.visibility.preferredQueries]]

\* url-checker.ts 281-316: after the test of line 281 the summary is built;
\* manifest.defaultUsagePolicy.canSummarize (line 295) reads a member of
\* undefined when the manifest has no defaultUsagePolicy.
analyzeManifest(res) ==
  IF ~res.found \/ ~HasManifest(res)
    THEN [NoAnalysis EXCEPT !.thrown = TRUE, !.message = "No ContentMark manifest found"]
  ELSE IF ~res.manifest.defaultUsagePolicy.present
    THEN [NoAnalysis EXCEPT
            !.thrown = TRUE,
            !.message = "Cannot read properties of undefined (reading 'canSummarize')"]
  ELSE AnalysisOfAnyManifest(res)

\* ------------------------------------------------------------------------
\* The validate and check commands of the CLI (cli.ts 22-108 and 149-217)
\* ------------------------------------------------------------------------
NoExit == -1

\* cli.ts 57-66 and 101: process.exit(result.valid ? 0 : 1) on every output
\* path; validate and validateURL do not throw, the catch of 103-107 exits
\* with 1.
ValidateCommandExit(result) ==
  IF result.thrown THEN 1
  ELSE IF result.valid THEN 0
  ELSE 1

\* cli.ts 160-216: the action calls process.exit only in its catch, so the
\* process ends with code 0 after either branch of line 167. The summary of
\* lines 188-194 reads members of manifest.defaultUsagePolicy.
CheckCommandExit(res) ==
  IF res.thrown THEN 1
  ELSE IF res.found /\ HasManifest(res) /\ ~res.manifest.defaultUsagePolicy.present THEN 1
  ELSE 0

\* ------------------------------------------------------------------------
\* Network
\* ------------------------------------------------------------------------
Statuses == {200, 404, 500}

\* response.ok
IsOk(status) == status >= 200 /\ status <= 299

\* The bodies a site serves at a manifest URL: text that is not JSON,
\* a valid manifest, a manifest on which the structural pass throws, and a
\* manifest without defaultUsagePolicy.
SiteDocs == {DocGarbage, DocBasic, DocNumVersion, DocVersionOnly}

\* What a fetch of a document can do: reject, answer with a status, and for
\* a success status deliver a body or fail while the body is read.
Responses ==
  [kind : {"throw"}, status : {0}, body : {NoManifest}]
  \cup [kind : {"status"}, status : {s \in Statuses : ~IsOk(s)}, body : {NoManifest}]
  \cup [kind : {"status"}, status : {s \in Statuses : IsOk(s)}, body : SiteDocs]
  \cup [kind : {"bodyfail"}, status : {s \in Statuses : IsOk(s)}, body : {NoManifest}]

\* Answers to the GET of a manifest reference taken from a page or from a
\* Link header: a rejection, one non-success status, or a served body.
ReferenceResponses == {r \in Responses : r.kind # "bodyfail" /\ r.status \in {0, 200, 404}}

\* Whether the options of the fetch call of a request carry a timeout:
\* url-checker.ts 83, 133, 169, 209 and 242 pass one; the fetch of the schema
\* (generator.ts 667) and of validateURL (generator.ts 740-744) pass none.
HasTimeout(req) == req \in {"well-known", "page", "link", "head", "header-link"}

\* The failure of a response as the enclosing catch sees it.
Failed(resp) == resp.kind \in {"throw", "bodyfail"}

\* The message of the error a failed fetch rejects with: node-fetch names
\* the request in it.
FailureMessage(req, resp) ==
  IF resp.kind = "throw"
    THEN "request to " \o req \o " failed, reason: connect ECONNREFUSED"
    ELSE "Invalid response body while trying to fetch " \o req \o ": Premature close"


\* ------------------------------------------------------------------------
\* Schema cache (generator.ts 651-680)
\* ------------------------------------------------------------------------
DEFAULT_SCHEMA_URL == "https://schema.contentmark.org/v1/manifest.json"
CustomSchemaUrl == "https://my-org.com/schema.json"
OverrideSchemaUrl == "https://override.example/schema.json"
SchemaUrls == {DEFAULT_SCHEMA_URL, CustomSchemaUrl, OverrideSchemaUrl}

\* generator.ts 660: || falls through on undefined and on "".
SchemaUrlFor(schemaUrl, customSchemaUrl) ==
  IF schemaUrl # "" THEN schemaUrl
  ELSE IF customSchemaUrl # "" THEN customSchemaUrl
  ELSE DEFAULT_SCHEMA_URL

\* A schema fetch delivers a schema body, or fails (the fetch rejects, the
\* status is not a success, or the body is not JSON).
SchemaResponses ==
  [ok : {TRUE}, schema : RemoteSchemas, why : {"fetched"}]
  \cup [ok : {FALSE}, schema : {NoSchema}, why : {"network", "status", "json"}]

\* generator.ts 672-678: the schema loadSchema returns after the fetch.
ResolvedSchema(resp) == IF resp.ok THEN resp.schema ELSE getBuiltInSchema

CacheBuiltInOnly(cache, url, resp) == [cache EXCEPT ![url] = getBuiltInSchema]

CacheFetchedOnly(cache, url, resp) ==
  IF resp.ok THEN [cache EXCEPT ![url] = resp.schema] ELSE cache

\* generator.ts 673 and 677: both outcomes are cached under the URL.
CacheAfterFetch(cache, url, resp) == [cache EXCEPT ![url] = ResolvedSchema(resp)]

\* ------------------------------------------------------------------------
\* State
\* ------------------------------------------------------------------------
VARIABLES
  client,         \* the component this process uses: validator or checker
  schemaCache,    \* ContentMarkValidator.schemaCache: schema URL -> schema
  schemaFetches,  \* number of schema fetches issued per URL in this process
  loadUrl,        \* url of the loadSchema call in progress (generator.ts 660)
  pc,             \* the await at which the current call is suspended
  op,             \* the public method that was called
  arg,            \* its arguments (and the validator's customSchemaUrl)
  inflight,       \* the requests that are issued and not yet answered
  log,            \* the answers received by the current call, in order
  content,        \* the body handed to validate
  respStatus,     \* the status of the response that carried content
  links,          \* linkMatches of the page (the href kind of each element)
  linkIdx,        \* position of the for loop over linkMatches
  headerRef,      \* the reference matched in the Link header
  allErrors,      \* allErrors of checkWebsite
  vresult,        \* the ValidationResult returned by validate / validateURL
  cresult,        \* the CheckResult returned by checkWebsite
  urls,           \* batchCheck: the urls argument
  concurrency,    \* options.concurrency (0: not given)
  onProgress,     \* whether options.onProgress is given
  chunks,         \* chunks of batchCheck
  chunkIdx,       \* position of the for loop over chunks
  bpc,            \* the await at which batchCheck is suspended
  pipe,           \* per input position: state of its checkWebsite pipeline
  pipeFetches,    \* per running pipeline: fetches answered so far
  chunkResults,   \* per input position: the pair the map callback returned
  results,        \* the Map under construction
  completed,      \* the completed counter
  progressLog,    \* arguments of the onProgress invocations, in order
  pauses,         \* chunk positions after which the delay was taken
  remote,         \* the document the schema host serves while calls overlap
  racers,         \* the validate calls that overlap, each at its await
  writes,         \* the schemaCache.set calls made by them, in order
  analysis,       \* what analyzeManifest returned or threw
  exitCode        \* the exit code of the CLI process (NoExit: still running)

cacheVars == <<client, schemaCache, schemaFetches>>
callVars ==
  <<loadUrl, pc, op, arg, inflight, log, content, respStatus, links, linkIdx, headerRef, allErrors,
    vresult, cresult>>
batchVars ==
  <<urls, concurrency, onProgress, chunks, chunkIdx, bpc, pipe, pipeFetches,
    chunkResults, results, completed, progressLog, pauses>>
raceVars == <<remote, racers, writes>>
vars == <<cacheVars, callVars, batchVars, raceVars, analysis, exitCode>>

NoArg == [url |-> NoUrl, text |-> NoManifest, schemaUrl |-> "", customSchemaUrl |-> ""]

\* The base URL of the running checkWebsite / validateURL call.
Base == ParseUrl(NormalizeUrl(arg.url)).url

CacheHit(url) == schemaCache[url] # NoSchema

\* The URL the outstanding request of the current call was sent to:
\* generator.ts 738 and url-checker.ts 74 (well-known), 127 and 204
\* (baseURL.toString()), 154-163 and 227-236 (the manifest reference).
RequestUrl(req) ==
  CASE req \in {"manifest", "well-known"} -> WellKnownUrl(Base)
    [] req \in {"page", "head"} -> Base
    [] req = "link" -> ResolveRef(links[linkIdx], Base).url
    [] req = "header-link" -> ResolveRef(headerRef, Base).url

\* An answer as it arrived: the URL that was requested, kind and status of
\* the response; for a schema fetch the schema document that was served.
LogEntry(strategy, req, idx, resp) ==
  [strategy |-> strategy, req |-> req, idx |-> idx, kind |-> resp.kind,
   status |-> resp.status, schema |-> NoSchema, url |-> RequestUrl(req)]

SchemaLogEntry(strategy, resp) ==
  [strategy |-> strategy, req |-> "schema", idx |-> 0, kind |-> resp.why,
   status |-> 0, schema |-> resp.schema]

\* errors of a strategy result, when the literal sets it (url-checker.ts 41-43)
ErrorsOf(res) == IF "errors" \in res.fields THEN res.errors ELSE <<>>

StrategyDoneIfValid(res) == res.found /\ res.valid

\* url-checker.ts 38, 47, 56
StrategyDone(res) == res.found

\* Fresh per-call state.
ResetCall(o, a) ==
  /\ op' = o
  /\ arg' = a
  /\ log' = <<>>
  /\ links' = <<>>
  /\ linkIdx' = 0
  /\ headerRef' = "none"
  /\ allErrors' = <<>>

\* loadSchema on a cache miss issues the fetch (generator.ts 667).
IssueSchemaFetch(url, waitpc) ==
  /\ loadUrl' = url
  /\ schemaFetches[url] < MaxSchemaFetches
  /\ schemaFetches' = [schemaFetches EXCEPT ![url] = @ + 1]
  /\ inflight' = {"schema"}
  /\ pc' = waitpc
  /\ UNCHANGED <<client, schemaCache>>

Init0 ==
  /\ client \in {"validator", "checker", "batch", "rules", "analyzer"}
  /\ schemaCache = [u \in SchemaUrls |-> NoSchema]
  /\ schemaFetches = [u \in SchemaUrls |-> 0]
  /\ loadUrl = ""
  /\ pc = "idle"
  /\ op = "none"
  /\ arg = NoArg
  /\ inflight = {}
  /\ log = <<>>
  /\ content = NoManifest
  /\ respStatus = 0
  /\ links = <<>>
  /\ linkIdx = 0
  /\ headerRef = "none"
  /\ allErrors = <<>>
  /\ vresult = EmptyResult
  /\ cresult = NoCheck
  /\ analysis = NoAnalysis
  /\ exitCode = NoExit

\* ------------------------------------------------------------------------
\* ContentMarkValidator.validate (generator.ts 682-728)
\* ------------------------------------------------------------------------
\* validate(content, schemaUrl) on a validator constructed with
\* customSchemaUrl. loadSchema runs first (line 683): a cached schema is
\* used at once, otherwise the call suspends at the schema fetch.
CallValidate ==
  \E text \in Docs, custom \in {"", CustomSchemaUrl}, override \in {"", OverrideSchemaUrl} :
    LET url == SchemaUrlFor(override, custom)
    IN /\ client = "validator"
       /\ pc \in {"idle", "done"}
       /\ ResetCall("validate", [NoArg EXCEPT !.text = text, !.schemaUrl = override,
                                              !.customSchemaUrl = custom])
       /\ content' = text
       /\ respStatus' = 0
       /\ cresult' = NoCheck
       /\ IF CacheHit(url)
            THEN /\ vresult' = ValidateWith(text, schemaCache[url])
                 /\ loadUrl' = url
                 /\ pc' = "done"
                 /\ inflight' = {}
                 /\ UNCHANGED cacheVars
            ELSE /\ vresult' = EmptyResult
                 /\ IssueSchemaFetch(url, "v_schema")
       /\ UNCHANGED <<batchVars, raceVars, analysis, exitCode>>

\* The schema fetch of validate / validateURL is answered
\* (generator.ts 667-679), and validate runs to its end.
ValidateSchemaResponse ==
  \E resp \in SchemaResponses :
    /\ pc \in {"v_schema", "vu_schema"}
    /\ schemaCache' = CacheAfterFetch(schemaCache, loadUrl, resp)
    /\ vresult' = ValidateWith(content, ResolvedSchema(resp))
    /\ log' = Append(log, SchemaLogEntry(op, resp))
    /\ inflight' = {}
    /\ pc' = "done"
    /\ UNCHANGED <<client, schemaFetches, loadUrl, op, arg, content, respStatus, links,
                   linkIdx, headerRef, allErrors, cresult, batchVars, raceVars, analysis, exitCode>>

\* ------------------------------------------------------------------------
\* ContentMarkValidator.validateURL (generator.ts 730-766)
\* ------------------------------------------------------------------------
CallValidateURL ==
  \E u \in InputUrls, custom \in {"", CustomSchemaUrl} :
    /\ client = "validator"
    /\ pc \in {"idle", "done"}
    /\ ResetCall("validateURL", [NoArg EXCEPT !.url = u, !.customSchemaUrl = custom])
    /\ content' = NoManifest
    /\ respStatus' = 0
    /\ cresult' = NoCheck
    /\ loadUrl' = ""
    /\ IF ParseUrl(NormalizeUrl(u)).ok
         THEN /\ vresult' = EmptyResult
              /\ inflight' = {"manifest"}
              /\ pc' = "vu_fetch"
         ELSE /\ vresult' = NetworkErrorResult("Invalid URL")
              /\ inflight' = {}
              /\ pc' = "done"
    /\ UNCHANGED <<cacheVars, batchVars, raceVars, analysis, exitCode>>

ValidateURLResponse ==
  \E resp \in Responses :
    /\ pc = "vu_fetch"
    /\ log' = Append(log, LogEntry(op, "manifest", 0, resp))
    /\ IF Failed(resp)
         THEN /\ vresult' = NetworkErrorResult(FailureMessage("manifest", resp))
              /\ pc' = "done"
              /\ inflight' = {}
              /\ UNCHANGED <<content, respStatus, loadUrl, cacheVars>>
         ELSE IF ~IsOk(resp.status)
           THEN /\ vresult' = FetchFailedResult(resp.status)
                /\ pc' = "done"
                /\ inflight' = {}
                /\ UNCHANGED <<content, respStatus, loadUrl, cacheVars>>
           ELSE /\ content' = resp.body
                /\ respStatus' = resp.status
                /\ LET url == SchemaUrlFor("", arg.customSchemaUrl)
                   IN IF CacheHit(url)
                        THEN /\ vresult' = ValidateWith(resp.body, schemaCache[url])
                             /\ loadUrl' = url
                             /\ pc' = "done"
                             /\ inflight' = {}
                             /\ UNCHANGED cacheVars
                        ELSE /\ vresult' = EmptyResult
                             /\ IssueSchemaFetch(url, "vu_schema")
    /\ UNCHANGED <<op, arg, links, linkIdx, headerRef, allErrors, cresult, batchVars, raceVars, analysis, exitCode>>

\* ------------------------------------------------------------------------
\* URLChecker.checkWebsite (url-checker.ts 26-271)
\* ------------------------------------------------------------------------
HtmlPages == UNION {[1..n -> RefKinds] : n \in 0..MaxLinks}

\* Answers to the GET of the page: links is html.match(linkRegex) reduced
\* to the href of each matched element (<<>> when nothing matches).
PageResponses ==
  [kind : {"throw"}, status : {0}, links : {<<>>}]
  \cup [kind : {"status"}, status : {s \in Statuses : ~IsOk(s)}, links : {<<>>}]
  \cup [kind : {"status"}, status : {s \in Statuses : IsOk(s)}, links : HtmlPages]
  \cup [kind : {"bodyfail"}, status : {s \in Statuses : IsOk(s)}, links : {<<>>}]

\* Answers to the HEAD request: header is the Link header, "absent", one
\* without rel=contentmark ("nomatch"), or the kind of the matched reference.
HeadResponses ==
  [kind : {"throw"}, status : {0}, header : {"absent"}]
  \cup [kind : {"status"}, status : {s \in Statuses : ~IsOk(s)}, header : {"absent"}]
  \cup [kind : {"status"}, status : {s \in Statuses : IsOk(s)},
        header : {"absent", "nomatch", "abs", "rel", "bad"}]

WellKnownNotFoundOnAnyStatus(resp) ==
  IF Failed(resp) THEN "neterror"
  ELSE IF IsOk(resp.status) THEN "validate"
  ELSE "notfound"

\* url-checker.ts 86, 104, 109, 119: what checkWellKnown does with an answer.
ClassifyWellKnown(resp) ==
  IF Failed(resp) THEN "neterror"
  ELSE IF IsOk(resp.status) THEN "validate"
  ELSE IF resp.status = 404 THEN "notfound"
  ELSE "httperror"

PageNotOkReported(status) == NotFoundWith(HttpStatusText(status))

\* url-checker.ts 136-138 and 212-214
PageNotOk(status) == NotFound

\* url-checker.ts 63
MissResult(errs) == [NoCheck EXCEPT !.fields = {"found", "errors"}, !.errors = errs]

\* url-checker.ts 55-63
AfterHeaders(res) ==
  /\ inflight' = {}
  /\ pc' = "done"
  /\ IF StrategyDone(res)
       THEN /\ cresult' = res
            /\ UNCHANGED allErrors
       ELSE /\ allErrors' = allErrors \o ErrorsOf(res)
            /\ cresult' = MissResult(allErrors \o ErrorsOf(res))

\* url-checker.ts 46-55
AfterHtmlLink(res) ==
  IF StrategyDone(res)
    THEN /\ cresult' = res
         /\ pc' = "done"
         /\ inflight' = {}
         /\ UNCHANGED allErrors
    ELSE /\ allErrors' = allErrors \o ErrorsOf(res)
         /\ inflight' = {"head"}
         /\ pc' = "head_fetch"
         /\ UNCHANGED cresult

\* url-checker.ts 37-46
AfterWellKnown(res) ==
  IF StrategyDone(res)
    THEN /\ cresult' = res
         /\ pc' = "done"
         /\ inflight' = {}
         /\ UNCHANGED allErrors
    ELSE /\ allErrors' = allErrors \o ErrorsOf(res)
         /\ inflight' = {"page"}
         /\ pc' = "page_fetch"
         /\ UNCHANGED cresult

\* The next element at or after position i that has an href (0: none).
NextHref(ls, i) ==
  IF \E j \in i..Len(ls) : ls[j] # "none"
    THEN CHOOSE j \in i..Len(ls) : ls[j] # "none" /\ \A k \in i..(j - 1) : ls[k] = "none"
    ELSE 0

\* new URL(ref, base) throws a TypeError.
InvalidUrlMessage(strategy) == "Invalid URL (" \o strategy \o " reference)"

ResolveFailure(strategy, idx) ==
  [strategy |-> strategy, req |-> "resolve", idx |-> idx, kind |-> "throw",
   status |-> 0, schema |-> NoSchema]

\* url-checker.ts 151-195: the for loop over linkMatches from position i on,
\* up to the next await. A reference that new URL rejects (line 158) leaves
\* the loop through the catch of line 197.
ScanLinks(ls, i, lg) ==
  LET j == NextHref(ls, i)
  IN IF j = 0
       THEN /\ linkIdx' = Len(ls) + 1
            /\ log' = lg
            /\ AfterHtmlLink(NotFound)
       ELSE /\ linkIdx' = j
            /\ IF ResolveRef(ls[j], Base).ok
                 THEN /\ log' = lg
                      /\ inflight' = {"link"}
                      /\ pc' = "link_fetch"
                      /\ UNCHANGED <<allErrors, cresult>>
                 ELSE /\ log' = Append(lg, ResolveFailure("html-link", j))
                      /\ AfterHtmlLink(NotFoundWith(InvalidUrlMessage("html-link")))

\* The value returned by a strategy once validate has returned.
\* url-checker.ts 88-100 (a rejection of validate lands in the catch of 119)
WellKnownFound(status, validation) ==
  IF validation.thrown THEN NotFoundWith(validation.message)
  ELSE FoundResult("well-known", WellKnownUrl(Base), WellKnownUrl(Base), status, validation)

\* url-checker.ts 174-186
HtmlLinkFound(ref, status, validation) ==
  FoundResult("html-link", Base, ResolveRef(ref, Base).url, status, validation)

\* url-checker.ts 247-262 (a rejection of validate lands in the catch of 261)
HeaderFound(ref, status, validation) ==
  IF validation.thrown THEN NotFound
  ELSE FoundResult("http-header", Base, ResolveRef(ref, Base).url, status, validation)

\* The strategy that called validate goes on with its result.
ContinueWith(k, status, validation, lg) ==
  CASE k = "wk_schema" ->
         /\ log' = lg
         /\ UNCHANGED <<links, linkIdx, headerRef>>
         /\ AfterWellKnown(WellKnownFound(status, validation))
    [] k = "link_schema" ->
         /\ UNCHANGED <<links, headerRef>>
         /\ IF validation.thrown
              THEN ScanLinks(links, linkIdx + 1, lg)
              ELSE /\ log' = lg
                   /\ UNCHANGED linkIdx
                   /\ AfterHtmlLink(HtmlLinkFound(links[linkIdx], status, validation))
    [] k = "hdr_schema" ->
         /\ log' = lg
         /\ UNCHANGED <<links, linkIdx, headerRef>>
         /\ AfterHeaders(HeaderFound(headerRef, status, validation))

\* A strategy hands a body to this.validator.validate(content): the
\* validator of the URLChecker has no custom schema URL (url-checker.ts 21)
\* and no override is passed.
HandToValidator(k, resp, lg) ==
  LET url == SchemaUrlFor("", "")
  IN /\ content' = resp.body
     /\ respStatus' = resp.status
     /\ IF CacheHit(url)
          THEN /\ ContinueWith(k, resp.status, ValidateWith(resp.body, schemaCache[url]), lg)
               /\ loadUrl' = url
               /\ UNCHANGED cacheVars
          ELSE /\ log' = lg
               /\ IssueSchemaFetch(url, k)
               /\ UNCHANGED <<links, linkIdx, headerRef, allErrors, cresult>>

CallCheckWebsite ==
  \E u \in InputUrls :
    /\ client = "checker"
    /\ pc \in {"idle", "done"}
    /\ ResetCall("check", [NoArg EXCEPT !.url = u])
    /\ content' = NoManifest
    /\ respStatus' = 0
    /\ vresult' = EmptyResult
    /\ loadUrl' = ""
    /\ IF ParseUrl(NormalizeUrl(u)).ok
         THEN /\ cresult' = NoCheck
              /\ inflight' = {"well-known"}
              /\ pc' = "wk_fetch"
         ELSE /\ cresult' = CheckWebsiteCatch("Invalid URL")
              /\ inflight' = {}
              /\ pc' = "done"
    /\ UNCHANGED <<cacheVars, batchVars, raceVars, analysis, exitCode>>

\* analyzeManifest(url) calls checkWebsite(url) (url-checker.ts 279).
CallAnalyzeManifest ==
  \E u \in InputUrls :
    /\ client = "analyzer"
    /\ pc \in {"idle", "returned"}
    /\ ResetCall("analyze", [NoArg EXCEPT !.url = u])
    /\ content' = NoManifest
    /\ respStatus' = 0
    /\ vresult' = EmptyResult
    /\ loadUrl' = ""
    /\ analysis' = NoAnalysis
    /\ IF ParseUrl(NormalizeUrl(u)).ok
         THEN /\ cresult' = NoCheck
              /\ inflight' = {"well-known"}
              /\ pc' = "wk_fetch"
         ELSE /\ cresult' = CheckWebsiteCatch("Invalid URL")
              /\ inflight' = {}
              /\ pc' = "done"
    /\ UNCHANGED <<cacheVars, batchVars, raceVars, exitCode>>

\* checkWebsite has returned and analyzeManifest runs to its end
\* (url-checker.ts 281-316).
AnalyzeManifestReturns ==
  /\ op = "analyze"
  /\ pc = "done"
  /\ analysis' = analyzeManifest(cresult)
  /\ pc' = "returned"
  /\ UNCHANGED <<cacheVars, loadUrl, op, arg, inflight, log, content, respStatus, links,
                 linkIdx, headerRef, allErrors, vresult, cresult, batchVars, raceVars,
                 exitCode>>

\* The call of the command has returned: the action prints the result and
\* the process ends (cli.ts 57-107 and 164-216).
CommandExits ==
  /\ pc = "done"
  /\ op \in {"validate", "validateURL", "check"}
  /\ exitCode' = IF op = "check" THEN CheckCommandExit(cresult)
                 ELSE ValidateCommandExit(vresult)
  /\ pc' = "exited"
  /\ UNCHANGED <<cacheVars, loadUrl, op, arg, inflight, log, content, respStatus, links,
                 linkIdx, headerRef, allErrors, vresult, cresult, batchVars, raceVars,
                 analysis>>

\* url-checker.ts 73-123
WellKnownResponse ==
  \E resp \in Responses :
    LET class == ClassifyWellKnown(resp)
        lg == Append(log, LogEntry("well-known", "well-known", 0, resp))
    IN /\ pc = "wk_fetch"
       /\ IF class = "validate"
            THEN HandToValidator("wk_schema", resp, lg)
            ELSE /\ log' = lg
                 /\ AfterWellKnown(
                      CASE class = "neterror" ->
                             NotFoundWith(FailureMessage("well-known", resp))
                        [] class = "notfound" -> NotFound
                        [] OTHER -> HttpErrorResult(WellKnownUrl(Base), resp.status))
                 /\ UNCHANGED <<content, respStatus, loadUrl, links, linkIdx, headerRef,
                                cacheVars>>
       /\ UNCHANGED <<op, arg, vresult, batchVars, raceVars, analysis, exitCode>>

\* url-checker.ts 125-160 and 197-199
PageResponse ==
  \E resp \in PageResponses :
    LET lg == Append(log, LogEntry("html-link", "page", 0, resp))
    IN /\ pc = "page_fetch"
       /\ IF Failed(resp)
            THEN /\ log' = lg
                 /\ AfterHtmlLink(NotFoundWith(FailureMessage("page", resp)))
                 /\ UNCHANGED <<links, linkIdx>>
            ELSE IF ~IsOk(resp.status)
              THEN /\ log' = lg
                   /\ AfterHtmlLink(PageNotOk(resp.status))
                   /\ UNCHANGED <<links, linkIdx>>
              ELSE /\ links' = resp.links
                   /\ ScanLinks(resp.links, 1, lg)
       /\ UNCHANGED <<loadUrl, op, arg, content, respStatus, headerRef, vresult, cacheVars,
                      batchVars, raceVars, analysis, exitCode>>

\* url-checker.ts 162-191
LinkResponse ==
  \E resp \in ReferenceResponses :
    LET lg == Append(log, LogEntry("html-link", "link", linkIdx, resp))
    IN /\ pc = "link_fetch"
       /\ IF ~Failed(resp) /\ IsOk(resp.status)
            THEN HandToValidator("link_schema", resp, lg)
            ELSE /\ ScanLinks(links, linkIdx + 1, lg)
                 /\ UNCHANGED <<content, respStatus, loadUrl, links, headerRef, cacheVars>>
       /\ UNCHANGED <<op, arg, vresult, batchVars, raceVars, analysis, exitCode>>

\* url-checker.ts 202-233 and 266-270
HeadResponse ==
  \E resp \in HeadResponses :
    LET lg == Append(log, LogEntry("http-header", "head", 0, resp))
    IN /\ pc = "head_fetch"
       /\ headerRef' = resp.header
       /\ IF Failed(resp)
            THEN /\ log' = lg
                 /\ AfterHeaders(NotFoundWith(FailureMessage("head", resp)))
            ELSE IF ~IsOk(resp.status)
              THEN /\ log' = lg
                   /\ AfterHeaders(PageNotOk(resp.status))
            ELSE IF resp.header \in {"absent", "nomatch"}
              THEN /\ log' = lg
                   /\ AfterHeaders(NotFound)
            ELSE IF ~ResolveRef(resp.header, Base).ok
              THEN /\ log' = Append(lg, ResolveFailure("http-header", 0))
                   /\ AfterHeaders(NotFoundWith(InvalidUrlMessage("http-header")))
            ELSE /\ log' = lg
                 /\ inflight' = {"header-link"}
                 /\ pc' = "hdr_fetch"
                 /\ UNCHANGED <<allErrors, cresult>>
       /\ UNCHANGED <<loadUrl, op, arg, content, respStatus, links, linkIdx, vresult,
                      cacheVars, batchVars, raceVars, analysis, exitCode>>

\* url-checker.ts 235-266
HeaderLinkResponse ==
  \E resp \in ReferenceResponses :
    LET lg == Append(log, LogEntry("http-header", "header-link", 0, resp))
    IN /\ pc = "hdr_fetch"
       /\ IF ~Failed(resp) /\ IsOk(resp.status)
            THEN HandToValidator("hdr_schema", resp, lg)
            ELSE /\ log' = lg
                 /\ AfterHeaders(NotFound)
                 /\ UNCHANGED <<content, respStatus, loadUrl, links, linkIdx, headerRef,
                                cacheVars>>
       /\ UNCHANGED <<op, arg, vresult, batchVars, raceVars, analysis, exitCode>>

\* The schema fetch issued by the validate call of a strategy is answered.
CheckSchemaResponse ==
  \E resp \in SchemaResponses :
    /\ pc \in {"wk_schema", "link_schema", "hdr_schema"}
    /\ schemaCache' = CacheAfterFetch(schemaCache, loadUrl, resp)
    /\ ContinueWith(pc, respStatus, ValidateWith(content, ResolvedSchema(resp)),
                    Append(log, SchemaLogEntry(log[Len(log)].strategy, resp)))
    /\ UNCHANGED <<client, schemaFetches, loadUrl, op, arg, content, respStatus, vresult,
                   batchVars, raceVars, analysis, exitCode>>

\* ------------------------------------------------------------------------
\* URLChecker.batchCheck (url-checker.ts 319-369)
\* ------------------------------------------------------------------------
\* Entries of the urls argument. NotAString is an entry for which
\* checkWebsite rejects: url.startsWith (line 28) is outside its try block.
NotAString == "<not a string>"
BatchUrls == {"a.example", NotAString}
\* The concurrency option: missing (0), 1, 2, and -1, which the CLI passes on
\* as parseInt("-1") (cli.ts 278).
ConcurrencyOptions == {-1, 0, 1, 2}
DefaultConcurrency == 5

\* What a checkWebsite pipeline can resolve with.
PipelineResults ==
  {MissResult(<<"ECONNREFUSED">>),
   HttpErrorResult([scheme |-> "https://", host |-> "a.example",
                    path |-> "/.well-known/contentmark.json"], 500)}

Min(a, b) == IF a < b THEN a ELSE b

RECURSIVE ChunkFrom(_, _, _)
\* url-checker.ts 365-367: the loop of chunkArray from index i (0-based).
ChunkFrom(array, i, size) ==
  IF i >= Len(array) THEN <<>>
  ELSE <<SubSeq(array, i + 1, Min(i + size, Len(array)))>> \o ChunkFrom(array, i + size, size)

\* url-checker.ts 363-369
chunkArray(array, size) == ChunkFrom(array, 0, size)

\* url-checker.ts 365: from i = 0 the condition i < array.length fails at
\* once for an empty array and after finitely many i += size for size > 0;
\* for size <= 0 and a non-empty array it never fails.
ChunkLoopEnds(array, size) == Len(array) = 0 \/ size > 0

\* A relative index of Array.prototype.slice: a negative one counts from
\* the end, and the result is clamped to 0..length.
SliceIndex(n, k) == IF k < 0 THEN (IF n + k < 0 THEN 0 ELSE n + k) ELSE Min(k, n)

\* Array.prototype.slice(start, end)
Slice(array, start, end) ==
  SubSeq(array, SliceIndex(Len(array), start) + 1, SliceIndex(Len(array), end))

\* url-checker.ts 324: options.concurrency || 5
EffectiveConcurrency(c) == IF c = 0 THEN DefaultConcurrency ELSE c

RECURSIVE ChunkOffset(_, _)
\* Number of urls in the chunks before chunk k.
ChunkOffset(cs, k) == IF k <= 1 THEN 0 ELSE ChunkOffset(cs, k - 1) + Len(cs[k - 1])

\* Input positions (1-based) of the members of chunk k of cs.
ChunkMembers(cs, k) == {ChunkOffset(cs, k) + j : j \in 1..Len(cs[k])}

PauseAfterEveryChunk(k, n) == k - 1 < n

\* url-checker.ts 355: chunks.indexOf(chunk) < chunks.length - 1. indexOf
\* compares array identities, so it yields the loop position (0-based).
PauseAfter(k, n) == k - 1 < n - 1

ProgressBeforeIncrement(lg, done, total) == Append(lg, <<done - 1, total>>)

\* url-checker.ts 333-335 and 339-341: options.onProgress(completed, urls.length)
ReportProgress(lg, done, total) == Append(lg, <<done, total>>)

CaughtWithoutMessage(msg) == MissResult(<<>>)

\* url-checker.ts 342-345
CaughtResult(msg) == MissResult(<<msg>>)

\* Map.set
MapSet(m, k, v) == (k :> v) @@ m

RECURSIVE SetAll(_, _, _)
\* url-checker.ts 350-352: forEach over chunkResults, in input order.
SetAll(m, pairs, i) ==
  IF i > Len(pairs) THEN m
  ELSE SetAll(MapSet(m, pairs[i][1], pairs[i][2]), pairs, i + 1)

UrlLists == UNION {[1..n -> BatchUrls] : n \in 0..MaxUrls}

InitBatch ==
  /\ urls \in UrlLists
  /\ concurrency \in ConcurrencyOptions
  /\ onProgress \in BOOLEAN
  /\ chunks = <<>>
  /\ chunkIdx = 0
  /\ bpc = "call"
  /\ pipe = [i \in 1..Len(urls) |-> "idle"]
  /\ pipeFetches = [i \in 1..Len(urls) |-> 0]
  /\ chunkResults = [i \in 1..Len(urls) |-> <<"", NoCheck>>]
  /\ results = <<>>
  /\ completed = 0
  /\ progressLog = <<>>
  /\ pauses = {}

\* The state of the batch variables while no batch runs.
NoBatch ==
  /\ urls = <<>>
  /\ concurrency = 0
  /\ onProgress = FALSE
  /\ chunks = <<>>
  /\ chunkIdx = 0
  /\ bpc = "none"
  /\ pipe = <<>>
  /\ pipeFetches = <<>>
  /\ chunkResults = <<>>
  /\ results = <<>>
  /\ completed = 0
  /\ progressLog = <<>>
  /\ pauses = {}

\* url-checker.ts 323-329: the body up to the first await. The map callback
\* of every member of the first chunk runs up to its await of checkWebsite.
StartChunkAt(k, cs) ==
  IF k > Len(cs)
    THEN /\ bpc' = "done"
         /\ chunkIdx' = k
         /\ UNCHANGED pipe
    ELSE /\ bpc' = "all"
         /\ chunkIdx' = k
         /\ pipe' = [i \in 1..Len(urls) |->
                       IF i \in ChunkMembers(cs, k) THEN "running" ELSE pipe[i]]

BatchCall ==
  /\ bpc = "call"
  /\ IF ChunkLoopEnds(urls, EffectiveConcurrency(concurrency))
       THEN /\ chunks' = chunkArray(urls, EffectiveConcurrency(concurrency))
            /\ StartChunkAt(1, chunkArray(urls, EffectiveConcurrency(concurrency)))
       ELSE /\ chunks' = <<>>
            /\ bpc' = "grouping"
            /\ UNCHANGED <<chunkIdx, pipe>>
  /\ UNCHANGED <<urls, concurrency, onProgress, pipeFetches, chunkResults, results,
                 completed, progressLog, pauses, cacheVars, callVars, raceVars, analysis, exitCode>>

\* url-checker.ts 365-367: one iteration of the loop of chunkArray when the
\* loop has no end; i is size times the number of chunks pushed so far.
ChunkLoopStep ==
  LET size == EffectiveConcurrency(concurrency)
      i == Len(chunks) * size
  IN /\ bpc = "grouping"
     /\ i < Len(urls)
     /\ Len(chunks) < MaxLoopSteps
     /\ chunks' = Append(chunks, Slice(urls, i, i + size))
     /\ UNCHANGED <<urls, concurrency, onProgress, chunkIdx, bpc, pipe, pipeFetches,
                    chunkResults, results, completed, progressLog, pauses,
                    cacheVars, callVars, raceVars, analysis, exitCode>>

\* The map callbacks run while batchCheck awaits Promise.all (349), and go
\* on running when Promise.all has rejected.
PipelinesRun == {"all", "rejected"}

\* A fetch of pipeline i is answered and checkWebsite issues its next one.
PipelineFetch ==
  \E i \in 1..Len(urls) :
    /\ bpc \in PipelinesRun
    /\ pipe[i] = "running"
    /\ urls[i] # NotAString
    /\ pipeFetches[i] < MaxPipelineFetches
    /\ pipeFetches' = [pipeFetches EXCEPT ![i] = @ + 1]
    /\ UNCHANGED <<urls, concurrency, onProgress, chunks, chunkIdx, bpc, pipe,
                   chunkResults, results, completed, progressLog, pauses,
                   cacheVars, callVars, raceVars, analysis, exitCode>>

\* url-checker.ts 331-336: checkWebsite of input position i resolves.
PipelineResolves ==
  \E i \in 1..Len(urls), r \in PipelineResults :
    /\ bpc \in PipelinesRun
    /\ pipe[i] = "running"
    /\ urls[i] # NotAString
    /\ completed' = completed + 1
    /\ progressLog' = IF onProgress
                        THEN ReportProgress(progressLog, completed + 1, Len(urls))
                        ELSE progressLog
    /\ chunkResults' = [chunkResults EXCEPT ![i] = <<urls[i], r>>]
    /\ pipe' = [pipe EXCEPT ![i] = "settled"]
    /\ pipeFetches' = [pipeFetches EXCEPT ![i] = 0]
    /\ UNCHANGED <<urls, concurrency, onProgress, chunks, chunkIdx, bpc,
                   results, pauses, cacheVars, callVars, raceVars, analysis, exitCode>>

\* url-checker.ts 337-346: checkWebsite of input position i rejects.
PipelineRejects ==
  \E i \in 1..Len(urls) :
    /\ bpc \in PipelinesRun
    /\ pipe[i] = "running"
    /\ urls[i] = NotAString
    /\ completed' = completed + 1
    /\ progressLog' = IF onProgress
                        THEN ReportProgress(progressLog, completed + 1, Len(urls))
                        ELSE progressLog
    /\ chunkResults' = [chunkResults EXCEPT
                          ![i] = <<urls[i], CaughtResult("url.startsWith is not a function")>>]
    /\ pipe' = [pipe EXCEPT ![i] = "settled"]
    /\ UNCHANGED <<urls, concurrency, onProgress, chunks, chunkIdx, bpc, pipeFetches,
                   results, pauses, cacheVars, callVars, raceVars, analysis, exitCode>>

\* What a call of the caller's onProgress can do.
CallbackOutcomes == {"returns", "throws"}
CallbackError == "onProgress failed"

\* url-checker.ts 331-346: checkWebsite of input position i resolves and
\* the onProgress call of line 334 throws: control passes to the catch
\* block, which increments completed again and calls onProgress again; if
\* that call returns, the pair of the catch block is returned, and if it
\* throws too, the promise of the map callback rejects.
PipelineResolvesProgressThrows ==
  \E i \in 1..Len(urls), second \in CallbackOutcomes :
    /\ bpc \in PipelinesRun
    /\ pipe[i] = "running"
    /\ urls[i] # NotAString
    /\ onProgress
    /\ completed' = completed + 2
    /\ progressLog' = ReportProgress(ReportProgress(progressLog, completed + 1, Len(urls)),
                                     completed + 2, Len(urls))
    /\ IF second = "returns"
         THEN /\ chunkResults' = [chunkResults EXCEPT
                                    ![i] = <<urls[i], CaughtResult(CallbackError)>>]
              /\ pipe' = [pipe EXCEPT ![i] = "settled"]
         ELSE /\ pipe' = [pipe EXCEPT ![i] = "rejected"]
              /\ UNCHANGED chunkResults
    /\ pipeFetches' = [pipeFetches EXCEPT ![i] = 0]
    /\ UNCHANGED <<urls, concurrency, onProgress, chunks, chunkIdx, bpc,
                   results, pauses, cacheVars, callVars, raceVars, analysis, exitCode>>

\* url-checker.ts 337-341: checkWebsite of input position i rejects and the
\* onProgress call of the catch block (340) throws: the promise of the map
\* callback rejects.
PipelineRejectsProgressThrows ==
  \E i \in 1..Len(urls) :
    /\ bpc \in PipelinesRun
    /\ pipe[i] = "running"
    /\ urls[i] = NotAString
    /\ onProgress
    /\ completed' = completed + 1
    /\ progressLog' = ReportProgress(progressLog, completed + 1, Len(urls))
    /\ pipe' = [pipe EXCEPT ![i] = "rejected"]
    /\ UNCHANGED <<urls, concurrency, onProgress, chunks, chunkIdx, bpc, pipeFetches,
                   chunkResults, results, pauses, cacheVars, callVars, raceVars,
                   analysis, exitCode>>

\* url-checker.ts 349: Promise.all rejects as soon as one of its promises
\* has rejected, and batchCheck, which has no catch around it, rejects.
BatchRejects ==
  /\ bpc = "all"
  /\ \E i \in ChunkMembers(chunks, chunkIdx) : pipe[i] = "rejected"
  /\ bpc' = "rejected"
  /\ UNCHANGED <<urls, concurrency, onProgress, chunks, chunkIdx, pipe, pipeFetches,
                 chunkResults, results, completed, progressLog, pauses,
                 cacheVars, callVars, raceVars, analysis, exitCode>>

\* url-checker.ts 349-357: Promise.all resolves once every callback of the
\* chunk has returned; the pairs enter the map; the delay starts unless
\* this was the last chunk.
ChunkSettles ==
  /\ bpc = "all"
  /\ \A i \in ChunkMembers(chunks, chunkIdx) : pipe[i] = "settled"
  /\ results' = SetAll(results,
                       [j \in 1..Len(chunks[chunkIdx]) |->
                          chunkResults[ChunkOffset(chunks, chunkIdx) + j]], 1)
  /\ IF PauseAfter(chunkIdx, Len(chunks))
       THEN /\ bpc' = "delay"
            /\ pauses' = pauses \cup {chunkIdx}
            /\ UNCHANGED <<chunkIdx, pipe>>
       ELSE /\ StartChunkAt(chunkIdx + 1, chunks)
            /\ UNCHANGED pauses
  /\ UNCHANGED <<urls, concurrency, onProgress, chunks, pipeFetches, chunkResults,
                 completed, progressLog, cacheVars, callVars, raceVars, analysis, exitCode>>

\* url-checker.ts 356: the timer fires and the loop takes the next chunk.
DelayEnds ==
  /\ bpc = "delay"
  /\ StartChunkAt(chunkIdx + 1, chunks)
  /\ UNCHANGED <<urls, concurrency, onProgress, chunks, pipeFetches, chunkResults,
                 results, completed, progressLog, pauses, cacheVars, callVars, raceVars, analysis, exitCode>>

\* ------------------------------------------------------------------------
\* Overlapping validate calls (generator.ts 659-728, url-checker.ts 329-349)
\* ------------------------------------------------------------------------
\* The pipelines of one batchCheck chunk share the validator of the
\* URLChecker: each calls validate(content) for the body it fetched, and the
\* calls overlap at the await of the schema fetch (generator.ts 667).
IdleRacer == [pc |-> "idle", text |-> NoManifest, used |-> NoSchema, result |-> EmptyResult]

\* The state of the race variables while no calls overlap.
NoRace ==
  /\ remote = NoSchema
  /\ racers = <<>>
  /\ writes = <<>>

\* Answers of the schema host to one fetch: the document it serves, or a
\* failure of this fetch.
RaceResponses == {r \in SchemaResponses : r.ok => r.schema = remote}

\* generator.ts 683 and 659-667: validate of racer i starts; loadSchema
\* returns the cached schema or suspends at the fetch.
RaceValidate ==
  \E i \in 1..MaxRacers, text \in SiteDocs :
    LET url == SchemaUrlFor("", "")
    IN /\ racers[i].pc = "idle"
       /\ IF CacheHit(url)
            THEN /\ racers' = [racers EXCEPT ![i] =
                               [pc |-> "done", text |-> text, used |-> schemaCache[url],
                                result |-> ValidateWith(text, schemaCache[url])]]
                 /\ UNCHANGED schemaFetches
            ELSE /\ racers' = [racers EXCEPT ![i] = [@ EXCEPT !.pc = "fetch", !.text = text]]
                 /\ schemaFetches' = [schemaFetches EXCEPT ![url] = @ + 1]
       /\ UNCHANGED <<client, schemaCache, callVars, batchVars, remote, writes, analysis, exitCode>>

\* generator.ts 667-679 and 685-727: the fetch of racer i is answered, the
\* resolved schema is written to the cache, and validate runs to its end.
RaceSchemaResponse ==
  \E i \in 1..MaxRacers, resp \in RaceResponses :
    LET url == SchemaUrlFor("", "")
    IN /\ racers[i].pc = "fetch"
       /\ schemaCache' = CacheAfterFetch(schemaCache, url, resp)
       /\ writes' = Append(writes, [old |-> schemaCache[url],
                                    new |-> CacheAfterFetch(schemaCache, url, resp)[url]])
       /\ racers' = [racers EXCEPT ![i] =
                      [@ EXCEPT !.pc = "done", !.used = ResolvedSchema(resp),
                                !.result = ValidateWith(racers[i].text, ResolvedSchema(resp))]]
       /\ UNCHANGED <<client, schemaFetches, callVars, batchVars, remote, analysis, exitCode>>

\* ------------------------------------------------------------------------
\* validate applied to each manifest (generator.ts 682-728)
\* ------------------------------------------------------------------------
\* validate(text) on a validator without customSchemaUrl, in a process
\* whose schema cache is cold: loadSchema issues the fetch (line 667).
RulesValidate ==
  /\ client = "rules"
  /\ pc = "idle"
  /\ \E text \in Manifests :
    /\ ResetCall("validate", [NoArg EXCEPT !.text = text])
    /\ content' = text
    /\ respStatus' = 0
    /\ cresult' = NoCheck
    /\ vresult' = EmptyResult
    /\ IssueSchemaFetch(SchemaUrlFor("", ""), "v_schema")
    /\ UNCHANGED <<batchVars, raceVars, analysis, exitCode>>

\* ------------------------------------------------------------------------
\* Specifications
\* ------------------------------------------------------------------------
\* Calls of validate, validateURL and checkWebsite, one after another, in
\* one process (one schema cache).
Init == Init0 /\ client \in {"validator", "checker"} /\ NoBatch /\ NoRace

Next ==
  \/ CallValidate
  \/ ValidateSchemaResponse
  \/ CallValidateURL
  \/ ValidateURLResponse
  \/ CallCheckWebsite
  \/ WellKnownResponse
  \/ PageResponse
  \/ LinkResponse
  \/ HeadResponse
  \/ HeaderLinkResponse
  \/ CheckSchemaResponse

Spec == Init /\ [][Next]_vars

\* One batchCheck call; its pipelines are reduced to their awaits.
BatchInit == Init0 /\ client = "batch" /\ InitBatch /\ NoRace

BatchNext ==
  \/ BatchCall
  \/ ChunkLoopStep
  \/ PipelineFetch
  \/ PipelineResolves
  \/ PipelineRejects
  \/ ChunkSettles
  \/ DelayEnds

SpecBatch == BatchInit /\ [][BatchNext]_vars

\* One batchCheck call whose onProgress callback can throw.
BatchThrowsNext ==
  \/ BatchCall
  \/ ChunkLoopStep
  \/ PipelineFetch
  \/ PipelineResolves
  \/ PipelineRejects
  \/ PipelineResolvesProgressThrows
  \/ PipelineRejectsProgressThrows
  \/ BatchRejects
  \/ ChunkSettles
  \/ DelayEnds

BatchThrowsInit == BatchInit /\ onProgress /\ Len(urls) <= MaxThrowUrls

SpecBatchThrows == BatchThrowsInit /\ [][BatchThrowsNext]_vars

\* validate calls that overlap, from a cold cache.
RaceInit ==
  /\ Init0
  /\ client = "batch"
  /\ NoBatch
  /\ remote \in RemoteSchemas
  /\ racers = [i \in 1..MaxRacers |-> IdleRacer]
  /\ writes = <<>>

RaceNext ==
  \/ RaceValidate
  \/ RaceSchemaResponse

SpecRace == RaceInit /\ [][RaceNext]_vars

\* One validate call per manifest, answered by each outcome of the schema
\* fetch.
RulesInit == Init0 /\ client = "rules" /\ NoBatch /\ NoRace

RulesNext ==
  \/ RulesValidate
  \/ ValidateSchemaResponse

SpecRules == RulesInit /\ [][RulesNext]_vars

\* Calls of analyzeManifest, one after another.
AnalyzeInit == Init0 /\ client = "analyzer" /\ NoBatch /\ NoRace

AnalyzeNext ==
  \/ CallAnalyzeManifest
  \/ WellKnownResponse
  \/ PageResponse
  \/ LinkResponse
  \/ HeadResponse
  \/ HeaderLinkResponse
  \/ CheckSchemaResponse
  \/ AnalyzeManifestReturns

SpecAnalyze == AnalyzeInit /\ [][AnalyzeNext]_vars

\* One run of the validate command or of the check command: one call, then
\* the process exits.
CliNext ==
  \/ pc = "idle" /\ CallValidate
  \/ pc = "idle" /\ CallValidateURL
  \/ pc = "idle" /\ CallCheckWebsite
  \/ ValidateSchemaResponse
  \/ ValidateURLResponse
  \/ WellKnownResponse
  \/ PageResponse
  \/ LinkResponse
  \/ HeadResponse
  \/ HeaderLinkResponse
  \/ CheckSchemaResponse
  \/ CommandExits

SpecCli == Init /\ [][CliNext]_vars

\* ------------------------------------------------------------------------
\* Properties of validate, validateURL and checkWebsite (under Spec)
\* ------------------------------------------------------------------------
ValidatorOps == {"validate", "validateURL"}

\* An answer that delivered a body.
Served(e) == e.kind = "status" /\ IsOk(e.status)

\* An answer that is a failure of the request itself.
NetFailure(e) == e.kind \in {"throw", "bodyfail"}

\* C1: validate, validateURL and checkWebsite never throw or reject, for
\* every document text, URL string and fetch outcome: the call completes
\* with a structured result, and a document that cannot be parsed, is null
\* or a scalar, has a wrongly typed field, or is validated against a
\* malformed schema body, shows up as an entry of errors with valid false;
\* a URL that cannot be parsed shows up as an errors entry as well.
C1_NeverThrows ==
  pc = "done" =>
    /\ ~vresult.thrown
    /\ ~cresult.thrown
    /\ (op \in ValidatorOps /\ loadUrl # ""
          /\ (\/ content \in {DocGarbage, DocNull, DocScalar, DocNumVersion, DocBadServices}
              \/ schemaCache[loadUrl] = "malformed"))
         => (~vresult.valid /\ Len(vresult.errors) >= 1)
    /\ (op = "validateURL" /\ loadUrl = "")
         => (~vresult.valid /\ Len(vresult.errors) = 1 /\ vresult.manifest = NoManifest)
    /\ (op = "check" /\ ~ParseUrl(NormalizeUrl(arg.url)).ok)
         => (~cresult.found /\ Len(cresult.errors) = 1)

\* validate has returned for a document with a numeric version: the
\* TypeError raised inside the structural pass is an entry of errors.
C1_Witness ==
  /\ pc = "done"
  /\ op = "validate"
  /\ content = DocNumVersion
  /\ ~vresult.thrown
  /\ \E i \in 1..Len(vresult.errors) :
       vresult.errors[i] = "Validation failed: data.version.match is not a function"

\* C2: every ValidationResult returned by validate or validateURL has
\* valid = true exactly when its errors list is empty, whatever warnings
\* and suggestions hold.
C2_ValidIffNoErrors ==
  (pc = "done" /\ op \in ValidatorOps) => (vresult.valid <=> Len(vresult.errors) = 0)

\* validate has returned valid = true for a document that draws warnings.
C2_Witness ==
  /\ pc = "done"
  /\ op = "validate"
  /\ content = DocConflict
  /\ vresult.valid
  /\ Len(vresult.errors) = 0
  /\ Len(vresult.warnings) >= 1

\* Position of a strategy in the order of checkWebsite.
StrategyRank(s) == CASE s = "well-known" -> 1 [] s = "html-link" -> 2 [] OTHER -> 3

\* C3: within one checkWebsite call the strategies run one after another
\* in the order well-known, html-link, http-header: at most one request is
\* outstanding, no request is repeated, the page GET is issued only after
\* the well-known strategy finished without a document, the HEAD only
\* after the html-link strategy finished without one, a found strategy
\* ends the call with its own result, and a well-known path that serves a
\* document is reported as 'well-known' with no other strategy attempted,
\* also when that document is invalid.
C3_SequentialStrategies ==
  op = "check" =>
    LET n == Len(log)
        htmlStarted == pc \in {"page_fetch", "link_fetch", "link_schema"}
                         \/ \E i \in 1..n : log[i].strategy = "html-link"
        headStarted == pc \in {"head_fetch", "hdr_fetch", "hdr_schema"}
                         \/ \E i \in 1..n : log[i].strategy = "http-header"
    IN /\ Cardinality(inflight) <= 1
       /\ (pc = "done" => inflight = {})
       /\ \A i, j \in 1..n :
            i < j => /\ StrategyRank(log[i].strategy) <= StrategyRank(log[j].strategy)
                     /\ ~(/\ log[i].req \in {"well-known", "page", "link", "head", "header-link"}
                          /\ log[i].req = log[j].req
                          /\ log[i].idx = log[j].idx)
       /\ htmlStarted => (n >= 1 /\ log[1].req = "well-known" /\ ~Served(log[1]))
       /\ headStarted => /\ htmlStarted
                         /\ n >= 2
                         /\ log[2].req = "page"
                         /\ \A i \in 1..n : log[i].req = "link" => ~Served(log[i])
                         /\ pc # "page_fetch"
       /\ (pc = "done" /\ cresult.found)
            => (n >= 1 /\ cresult.discoveryMethod = log[n].strategy)
       /\ (n >= 1 /\ Served(log[1]))
            => /\ \A i \in 1..n : log[i].strategy = "well-known"
               /\ pc \in {"wk_schema", "done"}
               /\ pc = "done" => (cresult.found /\ cresult.discoveryMethod = "well-known")

\* The well-known path served an invalid document and the call returned it
\* as found by 'well-known' without a page or HEAD request.
C3_Witness ==
  /\ pc = "done"
  /\ op = "check"
  /\ Len(log) >= 1
  /\ Served(log[1])
  /\ cresult.found
  /\ ~cresult.valid
  /\ cresult.discoveryMethod = "well-known"
  /\ \A i \in 1..Len(log) : log[i].req \notin {"page", "head"}

\* C4: the answer to the GET of the well-known path decides as follows.
\* A success answer: found, with the validator's verdict on the body.
\* A 404: not found and no error recorded for it; discovery goes on.
\* Another non-success status: found, valid = false, errors = the HTTP
\* error alone, the validator is not invoked and no further request is made.
\* A network failure: not found, its message is recorded first in the
\* aggregated errors, and discovery goes on with the page GET.
C4_WellKnownClassification ==
  (op = "check" /\ Len(log) >= 1) =>
    LET e == log[1]
        verdict == ValidateWith(content, schemaCache[DEFAULT_SCHEMA_URL])
        wkMessages == {FailureMessage("well-known", [kind |-> k]) : k \in {"throw", "bodyfail"}}
        recorded == IF pc = "done" /\ ~cresult.found THEN cresult.errors ELSE allErrors
    IN /\ e.req = "well-known"
       /\ Served(e) =>
            /\ content # NoManifest
            /\ pc \in {"wk_schema", "done"}
            /\ pc = "done" => /\ cresult.found
                              /\ cresult.discoveryMethod = "well-known"
                              /\ cresult.manifestUrl = WellKnownUrl(Base)
                              /\ cresult.httpStatus = e.status
                              /\ cresult.valid = verdict.valid
                              /\ cresult.errors = verdict.errors
                              /\ cresult.manifest = verdict.manifest
       /\ (e.kind = "status" /\ e.status = 404) =>
            /\ \A i \in 1..Len(recorded) : recorded[i] \notin wkMessages
            /\ \A i \in 1..Len(recorded) : recorded[i] # HttpStatusText(404)
            /\ pc = "done" => (Len(log) >= 2 /\ cresult.discoveryMethod # "well-known")
       /\ (e.kind = "status" /\ ~IsOk(e.status) /\ e.status # 404) =>
            /\ pc = "done"
            /\ Len(log) = 1
            /\ inflight = {}
            /\ content = NoManifest
            /\ cresult.found
            /\ ~cresult.valid
            /\ cresult.errors = <<HttpStatusText(e.status)>>
            /\ cresult.manifest = NoManifest
       /\ NetFailure(e) =>
            /\ Len(recorded) >= 1
            /\ recorded[1] = FailureMessage("well-known", e)
            /\ pc = "done" => (Len(log) >= 2 /\ cresult.discoveryMethod # "well-known")

\* The well-known path answered 500: found, invalid, the HTTP error only.
C4_Witness ==
  /\ pc = "done"
  /\ op = "check"
  /\ log = <<LogEntry("well-known", "well-known", 0, [kind |-> "status", status |-> 500])>>
  /\ cresult.found
  /\ ~cresult.valid
  /\ cresult.errors = <<"HTTP 500: Error">>

\* C5: when the well-known path answers 404 and the page has matching link
\* elements, the html-link strategy tries them in document order; a link
\* whose fetch fails or answers a non-success status does not end the
\* scan; the first link whose fetch succeeds gives found, 'html-link', the
\* resolved URL of that link and the validation of its content; when no
\* link's fetch succeeds every link that has a target has been tried and
\* the strategy reports not-found.
C5_LinksInDocumentOrder ==
  (/\ op = "check"
   /\ pc = "done"
   /\ Len(log) >= 2
   /\ log[1].kind = "status" /\ log[1].status = 404
   /\ log[2].req = "page" /\ Served(log[2])) =>
    LET n == Len(log)
        tried(i) == \E k \in 1..n : log[k].req = "link" /\ log[k].idx = i
        succeeded(i) == \E k \in 1..n : log[k].req = "link" /\ log[k].idx = i /\ Served(log[k])
        verdict == ValidateWith(content, schemaCache[DEFAULT_SCHEMA_URL])
    IN /\ \A j, k \in 1..n :
            (j < k /\ log[j].req = "link" /\ log[k].req = "link") => log[j].idx < log[k].idx
       /\ \A i \in 1..Len(links) :
            succeeded(i) =>
              /\ cresult.found
              /\ cresult.discoveryMethod = "html-link"
              /\ cresult.manifestUrl = ResolveRef(links[i], Base).url
              /\ cresult.valid = verdict.valid
              /\ cresult.errors = verdict.errors
              /\ cresult.manifest = verdict.manifest
              /\ \A h \in 1..Len(links) : tried(h) => h <= i
       /\ (\A i \in 1..Len(links) : ~succeeded(i)) =>
            /\ ~(cresult.found /\ cresult.discoveryMethod = "html-link")
            /\ \A i \in 1..Len(links) : links[i] \in {"abs", "rel"} => tried(i)

\* The scan passed a link whose fetch failed and found the manifest at the
\* second link of the page.
C5_SecondLinkFound ==
  /\ pc = "done"
  /\ op = "check"
  /\ Len(links) = 2
  /\ \E k \in 1..Len(log) : log[k].req = "link" /\ log[k].idx = 1 /\ ~Served(log[k])
  /\ cresult.found
  /\ cresult.discoveryMethod = "html-link"
  /\ cresult.manifestUrl = ResolveRef(links[2], Base).url

RECURSIVE CaughtMessages(_, _)
\* The messages of the exceptions that the strategies caught in their own
\* catch blocks, in the order of the answers lg[i..]: a rejected or broken
\* well-known, page or HEAD request, and a reference that did not resolve.
CaughtMessages(lg, i) ==
  IF i > Len(lg) THEN <<>>
  ELSE LET e == lg[i]
           m == IF e.req \in {"well-known", "page", "head"} /\ NetFailure(e)
                  THEN <<FailureMessage(e.req, e)>>
                ELSE IF e.req = "resolve" THEN <<InvalidUrlMessage(e.strategy)>>
                ELSE <<>>
       IN m \o CaughtMessages(lg, i + 1)

ExpectedSchemaUrl ==
  IF op = "validate" /\ arg.schemaUrl # "" THEN arg.schemaUrl
  ELSE IF op \in ValidatorOps /\ arg.customSchemaUrl # "" THEN arg.customSchemaUrl
  ELSE DEFAULT_SCHEMA_URL

AwaitsSchema == pc \in {"v_schema", "vu_schema", "wk_schema", "link_schema", "hdr_schema"}

\* Per state: a URL is fetched at most once, only on a miss, and what the
\* fetch resolved to (the served schema, or the fallback) is cached.
SchemaCacheState ==
  /\ \A u \in SchemaUrls :
       /\ schemaFetches[u] <= 1
       /\ schemaCache[u] # NoSchema => schemaFetches[u] = 1
       /\ schemaFetches[u] = 1 => (schemaCache[u] # NoSchema \/ (AwaitsSchema /\ loadUrl = u))
  /\ loadUrl # "" => loadUrl = ExpectedSchemaUrl
  /\ AwaitsSchema => (loadUrl # "" /\ schemaCache[loadUrl] = NoSchema)
  /\ \A i \in 1..Len(log) :
       log[i].req = "schema" =>
         schemaCache[loadUrl] = IF log[i].kind = "fetched" THEN log[i].schema ELSE "builtin"
  /\ (pc = "done" /\ op \in ValidatorOps /\ loadUrl # "")
       => vresult = ValidateWith(content, schemaCache[loadUrl])

\* Per step: a cached schema is never replaced or removed, and no fetch is
\* issued for a URL that is cached.
SchemaCacheStep ==
  \A u \in SchemaUrls :
    /\ schemaCache[u] # NoSchema => schemaCache'[u] = schemaCache[u]
    /\ schemaFetches'[u] # schemaFetches[u] => schemaCache[u] = NoSchema

LastPosition(u) ==
  CHOOSE i \in 1..Len(urls) : urls[i] = u /\ \A j \in (i + 1)..Len(urls) : urls[j] # u

\* C7: for every non-empty URL list and every mix of outcomes, batchCheck
\* resolves with a mapping whose key set is exactly the set of input URLs;
\* every pipeline has settled; a URL whose pipeline rejected holds
\* found = false with the message of the error; every other URL holds the
\* CheckResult its pipeline resolved with.
C7_BatchComplete ==
  (bpc = "done" /\ Len(urls) >= 1) =>
    /\ DOMAIN results = {urls[i] : i \in 1..Len(urls)}
    /\ \A i \in 1..Len(urls) : pipe[i] = "settled"
    /\ \A u \in DOMAIN results :
         IF u = NotAString
           THEN /\ ~results[u].found
                /\ results[u].errors = <<"url.startsWith is not a function">>
           ELSE /\ results[u] \in PipelineResults
                /\ results[u] = chunkResults[LastPosition(u)][2]

\* A batch of three entries has resolved: the pipeline of the second one
\* rejected, another resolved found, and both URLs are keys of the mapping.
C7_Witness ==
  /\ bpc = "done"
  /\ Len(urls) = 3
  /\ urls[2] = NotAString
  /\ DOMAIN results = {"a.example", NotAString}
  /\ ~results[NotAString].found
  /\ results["a.example"].found

\* C8: for a concurrency option that is a count (positive, or 0 or missing
\* and then 5) the URL list is processed in consecutive groups of at most
\* concurrency URLs: only members of
\* the current group run, all members of earlier groups have completed and
\* none of a later group has started, so at most concurrency pipelines are
\* outstanding; a pause is taken after each group except the last, while
\* no pipeline runs.
C8_GroupsOfConcurrency ==
  (bpc \in {"all", "delay", "done"} /\ concurrency >= 0) =>
    LET limit == IF concurrency = 0 THEN 5 ELSE concurrency
        n == Len(chunks)
        running == {i \in 1..Len(urls) : pipe[i] = "running"}
    IN /\ \A k \in 1..n : Len(chunks[k]) >= 1 /\ Len(chunks[k]) <= limit
       /\ ChunkOffset(chunks, n + 1) = Len(urls)
       /\ \A k \in 1..n : \A j \in 1..Len(chunks[k]) :
            chunks[k][j] = urls[ChunkOffset(chunks, k) + j]
       /\ Cardinality(running) <= limit
       /\ \A k \in 1..n : \A i \in ChunkMembers(chunks, k) :
            /\ k < chunkIdx => pipe[i] = "settled"
            /\ k > chunkIdx => pipe[i] = "idle"
            /\ (k = chunkIdx /\ bpc = "all") => pipe[i] \in {"running", "settled"}
            /\ (k = chunkIdx /\ bpc = "delay") => pipe[i] = "settled"
       /\ bpc = "done" => chunkIdx = n + 1
       /\ pauses = {k \in 1..(n - 1) : k < chunkIdx \/ (k = chunkIdx /\ bpc = "delay")}

\* Six URLs without a concurrency option: the five of the first group have
\* completed, the pause was taken, and the sixth runs alone.
C8_Witness ==
  /\ bpc = "all"
  /\ concurrency = 0
  /\ Len(urls) = 6
  /\ chunkIdx = 2
  /\ pipe = <<"settled", "settled", "settled", "settled", "settled", "running">>
  /\ pauses = {1}

\* C9: with an onProgress callback, the callback has been invoked once for
\* every URL that completed so far, resolved or rejected, with the counts
\* 1, 2, ... in that order and the total N every time; when the batch
\* resolves it has been invoked exactly N times.
C9_ProgressCounts ==
  bpc \in {"all", "delay", "done"} =>
    /\ onProgress =>
         /\ Len(progressLog) = Cardinality({i \in 1..Len(urls) : pipe[i] = "settled"})
         /\ \A k \in 1..Len(progressLog) : progressLog[k] = <<k, Len(urls)>>
         /\ bpc = "done" => Len(progressLog) = Len(urls)
    /\ ~onProgress => progressLog = <<>>

\* A batch of three URLs in groups of two has resolved, one pipeline having
\* rejected, after the calls (1,3), (2,3), (3,3).
C9_Witness ==
  /\ bpc = "done"
  /\ onProgress
  /\ concurrency = 2
  /\ Len(urls) = 3
  /\ \E i \in 1..3 : urls[i] = NotAString
  /\ progressLog = << <<1, 3>>, <<2, 3>>, <<3, 3>> >>

\* ------------------------------------------------------------------------
\* Properties of overlapping validate calls (under SpecRace)
\* ------------------------------------------------------------------------
\* Two schema documents that state the same rules.
Equivalent(a, b) == SchemaRules(a) = SchemaRules(b)

\* C11: when validate calls that resolve the same schema URL from a cold
\* cache overlap, every cache write for that URL stores a value equivalent
\* to the one it overwrites, and all of the calls validate against
\* equivalent schemas, also when one fetch succeeds and another fails.
C11_RaceOnlyRedundant ==
  /\ \A k \in 1..Len(writes) :
       writes[k].old # NoSchema => Equivalent(writes[k].old, writes[k].new)
  /\ \A i, j \in 1..Len(racers) :
       (racers[i].pc = "done" /\ racers[j].pc = "done")
         => Equivalent(racers[i].used, racers[j].used)

\* Two overlapping calls whose fetches both delivered the served schema:
\* the second write stores what the first one stored.
C11_RedundantFetch ==
  /\ Len(writes) = 2
  /\ schemaFetches[DEFAULT_SCHEMA_URL] = 2
  /\ writes[2].old = writes[2].new
  /\ \A i \in 1..Len(racers) : racers[i].pc = "done" /\ racers[i].used = remote

\* ------------------------------------------------------------------------
\* Properties of the fetches and of the validation rules (under Spec)
\* ------------------------------------------------------------------------
\* C12: every fetch issued by validate, validateURL and checkWebsite
\* carries a timeout, so no call waits on a request that can stay
\* unanswered for ever.
C12_EveryFetchHasTimeout == \A req \in inflight : HasTimeout(req)

\* checkWebsite waits for the linked manifest of a page: a request that
\* carries the timeout of the checker.
C12_TimedFetch ==
  /\ pc = "link_fetch"
  /\ inflight = {"link"}
  /\ HasTimeout("link")

\* The schema the finished validate call used, and how it was resolved.
UsedSchema == schemaCache[loadUrl]
ValidateDone == op = "validate" /\ pc = "done"

\* The schema source delivered a JSON-Schema-shaped document, or the fetch
\* failed and the built-in schema was used.
SchemaShaped == SchemaRules(UsedSchema) # "malformed"

\* C13: for a text that is not well-formed JSON, validate returns
\* valid = false, exactly one error (the parse failure), no warning, no
\* suggestion and no manifest, whatever schema was resolved.
C13_InvalidJson ==
  (ValidateDone /\ content.syntax = "bad") =>
    /\ ~vresult.thrown
    /\ vresult.valid = FALSE
    /\ vresult.errors = <<"Invalid JSON: Unexpected token">>
    /\ vresult.warnings = <<>>
    /\ vresult.suggestions = <<>>
    /\ vresult.manifest = NoManifest

\* Text that does not parse, validated while the schema host served a body
\* that is not a schema.
C13_Witness ==
  /\ ValidateDone
  /\ content = DocGarbage
  /\ UsedSchema = "malformed"
  /\ Len(vresult.errors) = 1

\* The four required top-level fields, and the errors that name one of them
\* (generator.ts 771, 777, 783, 796 and the required rule of the schema).
RequiredFields == {"version", "siteName", "defaultUsagePolicy", "lastModified"}

Lacks(d, f) ==
  CASE f = "version" -> d.version = Absent
    [] f = "siteName" -> d.siteName = Absent
    [] f = "defaultUsagePolicy" -> ~d.defaultUsagePolicy.present
    [] f = "lastModified" -> d.lastModified = Absent

NamesField(f) ==
  {"Missing required field: " \o f,
   "#/required: must have required property '" \o f \o "'"}

NamesMember(m) ==
  {"defaultUsagePolicy." \o m \o " must be a boolean",
   "/defaultUsagePolicy: must have required property '" \o m \o "'",
   "/defaultUsagePolicy/" \o m \o ": must be boolean"}

Reported(msgs) == \E k \in 1..Len(vresult.errors) : vresult.errors[k] \in msgs

\* C14: a parsed manifest that lacks some of the four required fields is
\* invalid and has, for each missing field, an error naming it; each policy
\* member that is missing or not a boolean has an error naming it.
C14_MissingFieldsNamed ==
  (ValidateDone /\ SchemaShaped /\ content.syntax = "object") =>
    /\ \A f \in RequiredFields :
         Lacks(content, f) => (~vresult.valid /\ Reported(NamesField(f)))
    /\ content.defaultUsagePolicy.present =>
         \A i \in 1..Len(PolicyMembers) :
           PolicyMember(content.defaultUsagePolicy, i) \notin {"true", "false"}
             => (~vresult.valid /\ Reported(NamesMember(PolicyMembers[i])))

\* {"version":"1.0.0"} under the built-in schema: the three missing fields
\* are each named by the structural pass.
C14_ThreeMissing ==
  /\ ValidateDone
  /\ content = DocVersionOnly
  /\ UsedSchema = getBuiltInSchema
  /\ Reported({"Missing required field: siteName"})
  /\ Reported({"Missing required field: defaultUsagePolicy"})
  /\ Reported({"Missing required field: lastModified"})

\* The four required fields correctly typed and no optional field.
BasicManifest(d) ==
  /\ d.syntax = "object"
  /\ d.version = "semver"
  /\ d.siteName = "ok"
  /\ d.lastModified = "iso"
  /\ d.defaultUsagePolicy.present
  /\ \A i \in 1..Len(PolicyMembers) :
       PolicyMember(d.defaultUsagePolicy, i) \in {"true", "false"}
  /\ d = [EmptyObject EXCEPT !.version = d.version, !.siteName = d.siteName,
                             !.lastModified = d.lastModified,
                             !.defaultUsagePolicy =
                               [d.defaultUsagePolicy EXCEPT !.attributionTemplate = Absent]]

Suggested(msg) == \E k \in 1..Len(vresult.suggestions) : vresult.suggestions[k] = msg

\* C15: a manifest with exactly the four required fields, correctly typed,
\* is valid with no error, the manifest of the result is the parsed input,
\* and the suggestions mention monetization and visibility; both when the
\* schema was fetched and when the built-in fallback was used.
C15_BasicManifestValid ==
  (ValidateDone /\ SchemaShaped /\ BasicManifest(content)) =>
    /\ vresult.valid = TRUE
    /\ vresult.errors = <<>>
    /\ vresult.manifest = content
    /\ Suggested("Consider adding monetization options to benefit from AI traffic")
    /\ Suggested("Consider adding visibility settings to optimize AI discoverability")

\* The basic manifest validated after the schema fetch failed.
C15_Witness ==
  /\ ValidateDone
  /\ content = DocBasic
  /\ log[1].kind = "network"
  /\ UsedSchema = getBuiltInSchema
  /\ vresult.valid

\* The errors about the format of version: generator.ts 773 and the type
\* and pattern rules of the schema (generator.ts 922).
VersionFormatErrors ==
  {"Version must follow semantic versioning (e.g., \"1.0.0\")",
   "/version: must match pattern", "/version: must be string"}

\* C16: a version that is present and is not MAJOR.MINOR.PATCH (a string
\* with a prefix or suffix, the empty string, a value that is not a string)
\* makes the manifest invalid with a version-format error, whatever the
\* other fields and the schema.
C16_VersionFormat ==
  (/\ ValidateDone /\ SchemaShaped /\ content.syntax = "object"
   /\ content.version \in {"badformat", "empty", "number"}) =>
    /\ ~vresult.valid
    /\ Reported(VersionFormatErrors)

\* "v1.0.0" in an otherwise basic manifest, under a schema without rules:
\* the structural pass reports the format.
C16_PrefixedVersion ==
  /\ ValidateDone
  /\ content = [DocBasic EXCEPT !.version = "badformat"]
  /\ SchemaRules(UsedSchema) = "open"
  /\ vresult.errors = <<"Version must follow semantic versioning (e.g., \"1.0.0\")">>

\* The error of checkURL for a field path (generator.ts 817).
UrlError(path) == path \o " must be a valid absolute URL"

\* A string that new URL rejects: relative, malformed or empty.
BadUrl(v) == v \in {"rel", "malformed", "empty"}

ErrorCount(msg) == Cardinality({k \in 1..Len(vresult.errors) : vresult.errors[k] = msg})

\* A bad URL at path: invalid, with one error naming path; an absolute URL
\* at path: no such error.
UrlFieldChecked(v, path) ==
  /\ BadUrl(v) => (~vresult.valid /\ ErrorCount(UrlError(path)) = 1)
  /\ v = "abs" => ErrorCount(UrlError(path)) = 0

ItemPath(prefix, i) == prefix \o "[" \o ToString(i - 1) \o "].url"

\* C17: each of feeds[i].url, monetization.tipJar,
\* monetization.consultation.bookingUrl and monetization.services[i].url
\* that holds a string which is not an absolute URL (relative, malformed or
\* empty) makes the manifest invalid with one error of its own naming the
\* path; an absolute URL there never produces that error.
C17_UrlFieldsChecked ==
  (ValidateDone /\ SchemaShaped /\ content.syntax = "object") =>
    /\ UrlFieldChecked(content.monetization.tipJar, "monetization.tipJar")
    /\ UrlFieldChecked(content.monetization.consultation.bookingUrl,
                       "monetization.consultation.bookingUrl")
    /\ \A i \in 1..Len(content.feeds.items) :
         UrlFieldChecked(content.feeds.items[i].url, ItemPath("feeds", i))
    /\ \A i \in 1..Len(content.monetization.services.items) :
         UrlFieldChecked(content.monetization.services.items[i].url,
                         ItemPath("monetization.services", i))

\* An absolute and a relative feed URL, a malformed tip jar and a relative
\* service URL: three errors, none for feeds[0].
C17_SeveralBadUrls ==
  /\ ValidateDone
  /\ UsedSchema = getBuiltInSchema
  /\ content.feeds.items = <<[url |-> "abs"], [url |-> "rel"]>>
  /\ content.monetization.tipJar = "malformed"
  /\ content.monetization.consultation.bookingUrl = "abs"
  /\ content.monetization.services.items = <<[url |-> "rel"]>>
  /\ vresult.errors =
       <<UrlError("feeds[1].url"), UrlError("monetization.tipJar"),
         UrlError("monetization.services[0].url")>>

\* The URL-valued members of a manifest (generator.ts 9, 32, 35, 40, 45, 51,
\* 53, 59), as the set of their values.
UrlFieldValues(d) ==
  {d.monetization.tipJar, d.monetization.consultation.bookingUrl,
   d.monetization.subscription.url, d.access.loginUrl, d.access.subscriptionUrl,
   d.renderHints.callToActionUrl}
  \cup {d.feeds.items[i].url : i \in 1..Len(d.feeds.items)}
  \cup {d.monetization.services.items[i].url : i \in 1..Len(d.monetization.services.items)}

\* C18: a manifest in which some URL-valued field, wherever it is nested,
\* holds a relative or malformed URL is never returned as valid,
\* also when the resolved schema does not constrain that field.
C18_EveryUrlFieldChecked ==
  (/\ ValidateDone /\ SchemaShaped /\ content.syntax = "object"
   /\ \E v \in UrlFieldValues(content) : v \in {"rel", "malformed"}) =>
    ~vresult.valid

\* A relative tip jar as the only URL of the manifest, under the built-in
\* schema: invalid.
C18_RelativeTipJar ==
  /\ ValidateDone
  /\ UsedSchema = getBuiltInSchema
  /\ UrlFieldValues(content) = {Absent, "rel"}
  /\ content.monetization.tipJar = "rel"
  /\ ~vresult.valid
  /\ vresult.errors = <<UrlError("monetization.tipJar")>>

\* The messages of checkLogicalConsistency (generator.ts 852, 858, 863, 869).
LoginUrlRequired == "access.loginUrl is required when type is \"authenticated\""
ConflictingSettings == "Conflicting settings: canSummarize is false but aiDiscovery is enhanced"
AttributionRequired == "Attribution required but no attributionTemplate provided"
BookingUrlMissing == "Consultation marked as available but no bookingUrl provided"

Warned(msg) == \E k \in 1..Len(vresult.warnings) : vresult.warnings[k] = msg

Without(seq, msg) == SelectSeq(seq, LAMBDA e : e # msg)

\* The same manifest with access.loginUrl supplied.
WithLoginUrl(d) == [d EXCEPT !.access.loginUrl = "abs"]

AuthenticatedWithoutLogin(d) == d.access.type = "authenticated" /\ d.access.loginUrl = Absent

\* No error comes from anything but the cross-field rules.
NoOtherError(d) ==
  /\ BasicManifest([EmptyObject EXCEPT
       !.version = d.version, !.siteName = d.siteName, !.lastModified = d.lastModified,
       !.defaultUsagePolicy = [d.defaultUsagePolicy EXCEPT !.attributionTemplate = Absent]])
  /\ UrlFieldValues(d) \subseteq {Absent, "abs"}
  /\ d.monetization.services.present => d.monetization.services.isArray
  /\ ~AuthenticatedWithoutLogin(d)

\* C19: access.type authenticated without loginUrl always adds an error,
\* and supplying loginUrl removes exactly that error; canSummarize false
\* with aiDiscovery enhanced, mustAttribute true without attributionTemplate
\* and consultation.available true without bookingUrl each add a warning
\* and leave the manifest valid when nothing else is wrong.
C19_CrossFieldRules ==
  (ValidateDone /\ SchemaShaped /\ content.syntax = "object") =>
    LET d == content
        p == d.defaultUsagePolicy
        c == d.monetization.consultation
    IN /\ AuthenticatedWithoutLogin(d) =>
            /\ ~vresult.valid
            /\ ErrorCount(LoginUrlRequired) = 1
            /\ ValidateWith(WithLoginUrl(d), UsedSchema).errors
                 = Without(vresult.errors, LoginUrlRequired)
       /\ (p.canSummarize = "false" /\ d.visibility.aiDiscovery = "enhanced") =>
            (Warned(ConflictingSettings) /\ (NoOtherError(d) => vresult.valid))
       /\ (p.mustAttribute = "true" /\ p.attributionTemplate = Absent) =>
            (Warned(AttributionRequired) /\ (NoOtherError(d) => vresult.valid))
       /\ (c.available = "true" /\ c.bookingUrl = Absent) =>
            (Warned(BookingUrlMissing) /\ (NoOtherError(d) => vresult.valid))

\* A manifest that triggers the three warning rules and nothing else: valid,
\* with the three warnings in the order of the rules.
C19_ThreeWarnings ==
  /\ ValidateDone
  /\ UsedSchema = getBuiltInSchema
  /\ NoOtherError(content)
  /\ vresult.valid
  /\ vresult.errors = <<>>
  /\ vresult.warnings = <<ConflictingSettings, AttributionRequired, BookingUrlMissing>>

\* ------------------------------------------------------------------------
\* Repeated validation (under SpecRace)
\* ------------------------------------------------------------------------
SameResult(a, b) ==
  /\ a.valid = b.valid
  /\ a.errors = b.errors
  /\ a.warnings = b.warnings
  /\ a.suggestions = b.suggestions

\* One schema fetch was answered and none is outstanding: every other call
\* that is done was served from the cache, after the fetching call returned.
InSuccession == Len(writes) = 1 /\ \A i \in 1..MaxRacers : racers[i].pc # "fetch"

\* C20: validate calls on the same text with the same schema source, one
\* after the other, return the same valid, errors, warnings and suggestions,
\* the first call resolving the schema by fetch or fallback and the later
\* ones reading the cache.
C20_SameResultTwice ==
  InSuccession =>
    \A i, j \in 1..MaxRacers :
      (racers[i].pc = "done" /\ racers[j].pc = "done" /\ racers[i].text = racers[j].text)
        => SameResult(racers[i].result, racers[j].result)

\* A manifest with a numeric version validated twice; the schema host
\* served a schema without rules to the first call and the second call read
\* it from the cache.
C20_Witness ==
  /\ InSuccession
  /\ schemaFetches[DEFAULT_SCHEMA_URL] = 1
  /\ writes[1].new = "open"
  /\ \A i \in 1..2 :
       /\ racers[i].pc = "done"
       /\ racers[i].text = DocNumVersion
       /\ racers[i].used = "open"
       /\ racers[i].result.errors = <<"Validation failed: data.version.match is not a function">>

\* ------------------------------------------------------------------------
\* validateURL, analyzeManifest and the results of checkWebsite (under Spec)
\* ------------------------------------------------------------------------
ValidateURLDone == op = "validateURL" /\ pc = "done"

\* The single answer the manifest request of validateURL received.
ManifestAnswer == log[1]

\* C21: validateURL prepends https:// to a url without a scheme and requests
\* /.well-known/contentmark.json at that origin; a fetch that throws or
\* answers with a non-success status gives valid = false with exactly one
\* error, no warning, no suggestion, no manifest and no call of validate;
\* a fetch that succeeds gives the result of validate for the body.
C21_ValidateURL ==
  (ValidateURLDone /\ log # <<>>) =>
    /\ ManifestAnswer.req = "manifest"
    /\ ManifestAnswer.url =
         [scheme |-> IF arg.url.scheme \in {"http://", "https://"}
                       THEN arg.url.scheme ELSE "https://",
          host |-> arg.url.host,
          path |-> "/.well-known/contentmark.json"]
    /\ (ManifestAnswer.kind = "throw"
        \/ (ManifestAnswer.kind = "status" /\ ManifestAnswer.status \notin 200..299)) =>
         /\ Len(log) = 1
         /\ loadUrl = ""
         /\ ~vresult.thrown
         /\ vresult.valid = FALSE
         /\ Len(vresult.errors) = 1
         /\ vresult.warnings = <<>>
         /\ vresult.suggestions = <<>>
         /\ vresult.manifest = NoManifest
    /\ (ManifestAnswer.kind = "status" /\ ManifestAnswer.status \in 200..299) =>
         /\ loadUrl = SchemaUrlFor("", arg.customSchemaUrl)
         /\ vresult = ValidateWith(content, schemaCache[loadUrl])

\* validateURL("example.com") answered with status 500.
C21_Witness ==
  /\ ValidateURLDone
  /\ arg.url = [scheme |-> "", host |-> "example.com", path |-> ""]
  /\ Len(log) = 1
  /\ ManifestAnswer.url.scheme = "https://"
  /\ ManifestAnswer.status = 500
  /\ vresult.errors = <<"Failed to fetch manifest: HTTP 500">>

AnalyzeReturned == op = "analyze" /\ pc = "returned"

\* C22: analyzeManifest has two outcomes: it fails with 'No ContentMark
\* manifest found' when checkWebsite found nothing or no manifest was
\* parsed; otherwise it returns the four groups, hasMonetization and
\* hasVisibility telling whether the manifest has the block; it issues no
\* fetch of its own and leaves the schema cache as checkWebsite left it.
C22_AnalyzeTwoOutcomes ==
  AnalyzeReturned =>
    /\ inflight = {}
    /\ IF ~cresult.found \/ cresult.manifest.syntax \in {"none", "null"}
         THEN /\ analysis.thrown
              /\ analysis.message = "No ContentMark manifest found"
         ELSE /\ ~analysis.thrown
              /\ analysis.returned
              /\ analysis.monetization.hasMonetization = cresult.manifest.monetization.present
              /\ analysis.optimization.hasVisibility = cresult.manifest.visibility.present
              /\ analysis.basicInfo.siteName = cresult.manifest.siteName

\* The basic manifest found at the well-known location: a summary without
\* monetization and without visibility.
C22_SummaryOfBasic ==
  /\ AnalyzeReturned
  /\ cresult.found
  /\ cresult.manifest = DocBasic
  /\ analysis.returned
  /\ analysis.policies = OkPolicy
  /\ ~analysis.monetization.hasMonetization
  /\ ~analysis.optimization.hasVisibility

CheckDone == op = "check" /\ pc = "done"

\* A strategy handed a document to the validator and returned its literal.
HandedToValidator == cresult.found /\ "manifest" \in cresult.fields

\* What validate returned for the document the strategy handed over.
Validation == ValidateWith(content, schemaCache[loadUrl])

\* C23: when a strategy hands a document to the validator, the CheckResult
\* carries the whole ValidationResult: valid, errors, warnings, suggestions
\* and manifest are members of it and equal what validate returned.
C23_FullValidationResult ==
  (CheckDone /\ HandedToValidator) =>
    /\ {"valid", "errors", "warnings", "suggestions", "manifest"} \subseteq cresult.fields
    /\ cresult.valid = Validation.valid
    /\ cresult.errors = Validation.errors
    /\ cresult.manifest = Validation.manifest

\* The basic manifest found through a page link: valid, errors and manifest
\* are those of validate, whose suggestions are not empty.
C23_FoundByLink ==
  /\ CheckDone
  /\ HandedToValidator
  /\ cresult.method = "html-link"
  /\ content = DocBasic
  /\ cresult.valid = Validation.valid
  /\ cresult.errors = Validation.errors
  /\ cresult.manifest = DocBasic
  /\ Validation.suggestions # <<>>

Exited == pc = "exited"

\* C24: the exit code of the CLI is 0 only for a valid manifest (validate)
\* or a found manifest (check), and not 0 for an invalid manifest, for a
\* check that found nothing and for an error; a network error of the
\* validate command exits with 2.
C24_ExitCodes ==
  Exited =>
    /\ op \in {"validate", "validateURL"} =>
         /\ exitCode = 0 <=> vresult.valid
         /\ (op = "validateURL" /\ log # <<>> /\ log[1].kind = "throw") => exitCode = 2
    /\ op = "check" => (exitCode = 0 <=> cresult.found)

\* The validate command on the basic manifest exits with 0.
C24_ValidExitsZero ==
  /\ Exited
  /\ op = "validate"
  /\ content = DocBasic
  /\ vresult.valid
  /\ exitCode = 0

\* C25: validate parses before it resolves the schema: a call whose text
\* does not parse issues no schema fetch and receives no schema answer, so
\* the schema cache stays as it was.
C25_ParseBeforeSchema ==
  (op = "validate" /\ content.syntax = "bad") =>
    /\ "schema" \notin inflight
    /\ log = <<>>

\* Text that does not parse, validated when the schema is already cached:
\* the call returns the parse error without a fetch.
C25_UnparsableWarmCache ==
  /\ ValidateDone
  /\ content = DocGarbage
  /\ log = <<>>
  /\ schemaFetches[loadUrl] = 1
  /\ Len(vresult.errors) = 1

\* The origin of the input URL of the current call, with the given path.
AtOrigin(path) ==
  [scheme |-> IF arg.url.scheme \in {"http://", "https://"}
                THEN arg.url.scheme ELSE "https://",
   host |-> arg.url.host, path |-> path]

\* The URL a manifest reference stands for: itself when absolute, its path
\* on the origin when relative.
ReferenceTarget(kind) ==
  IF kind = "abs"
    THEN [scheme |-> "https://", host |-> "cdn.example.net", path |-> "/contentmark.json"]
    ELSE AtOrigin("/cm/manifest.json")

\* C26: for every input URL, also one with a path, strategy 2 GETs and
\* strategy 3 HEADs the origin root, and a manifest reference is requested
\* as it is when absolute and on the origin when relative.
C26_OriginRootAndReferences ==
  op = "check" =>
    \A k \in 1..Len(log) :
      /\ log[k].req \in {"page", "head"} => log[k].url = AtOrigin("/")
      /\ log[k].req = "link" => log[k].url = ReferenceTarget(links[log[k].idx])
      /\ log[k].req = "header-link" => log[k].url = ReferenceTarget(headerRef)

\* checkWebsite("example.com"): the page is requested at the origin root and
\* a relative reference of the page on the origin.
C26_RelativeLinkOnOrigin ==
  /\ CheckDone
  /\ arg.url.path = ""
  /\ Len(log) >= 3
  /\ log[2].req = "page"
  /\ log[2].url = [scheme |-> "https://", host |-> "example.com", path |-> "/"]
  /\ log[3].req = "link"
  /\ links[log[3].idx] = "rel"
  /\ log[3].url = [scheme |-> "https://", host |-> "example.com", path |-> "/cm/manifest.json"]

\* The errors that are about lastModified not being a timestamp.
LastModifiedErrors ==
  {"lastModified must be a valid ISO 8601 timestamp",
   "/lastModified: must match format \"date-time\""}

\* C27: a manifest whose lastModified is present but is not a date is
\* invalid and has an error about lastModified, whatever schema was used.
C27_LastModifiedChecked ==
  (ValidateDone /\ SchemaShaped /\ content.syntax = "object"
     /\ content.lastModified = "notdate") =>
    (~vresult.valid /\ Reported(LastModifiedErrors))

\* Under the built-in schema a lastModified of "yesterday" is reported.
C27_NotDateUnderBuiltIn ==
  /\ ValidateDone
  /\ UsedSchema = "builtin"
  /\ content.lastModified = "notdate"
  /\ content.version = "semver"
  /\ ~vresult.valid
  /\ Reported(LastModifiedErrors)

\* ------------------------------------------------------------------------
\* Termination and robustness of batchCheck (under SpecBatch)
\* ------------------------------------------------------------------------
RECURSIVE Concat(_, _)
\* The concatenation of the first k groups.
Concat(cs, k) == IF k = 0 THEN <<>> ELSE Concat(cs, k - 1) \o cs[k]

\* C28: for every URL list and every integer concurrency option, zero and
\* negative ones too, the grouping step of batchCheck finishes: while it
\* runs, some number of further iterations ends its loop; and once it has
\* finished the groups concatenate to the input list, each of them
\* non-empty and no larger than the effective concurrency.
C28_GroupingTerminates ==
  LET size == EffectiveConcurrency(concurrency)
  IN /\ bpc = "grouping" =>
          \E k \in 0..Len(urls) : (Len(chunks) + k) * size >= Len(urls)
     /\ bpc \in {"all", "delay", "done"} =>
          /\ Concat(chunks, Len(chunks)) = urls
          /\ \A k \in 1..Len(chunks) :
               Len(chunks[k]) >= 1 /\ Len(chunks[k]) <= size

\* Six URLs without a concurrency option: the batch has resolved after a
\* group of five and a group of one.
C28_DefaultGroups ==
  /\ bpc = "done"
  /\ concurrency = 0
  /\ Len(urls) = 6
  /\ Len(chunks) = 2
  /\ Len(chunks[1]) = 5
  /\ Len(chunks[2]) = 1

\* C29: completed is incremented exactly once for every URL whose callback
\* has ended and never exceeds the number of URLs, and the batch does not
\* reject but resolves with a result for every URL, also when calls of
\* onProgress throw.
C29_CountedOnceAndResolves ==
  /\ bpc \in {"all", "delay", "done", "rejected"} =>
       /\ completed = Cardinality({i \in 1..Len(urls) : pipe[i] \in {"settled", "rejected"}})
       /\ completed <= Len(urls)
  /\ bpc # "rejected"
  /\ bpc = "done" => DOMAIN results = {urls[i] : i \in 1..Len(urls)}

\* A call of onProgress threw for the only URL of a batch and the call of
\* the catch block returned: the batch has resolved with a result for it.
C29_ThrowingCallbackResolved ==
  /\ bpc = "done"
  /\ onProgress
  /\ urls = <<"a.example">>
  /\ progressLog = << <<1, 1>>, <<2, 1>> >>
  /\ DOMAIN results = {"a.example"}
  /\ results["a.example"] = CaughtResult(CallbackError)

\* ------------------------------------------------------------------------
\* The discovery method of a found result (under Spec)
\* ------------------------------------------------------------------------
DiscoveryMethods == {"well-known", "html-link", "http-header"}

\* C30: every CheckResult with found = true carries method and
\* discoveryMethod, both set and equal and naming the strategy that found
\* the manifest, together with manifestUrl and httpStatus, and the method
\* line of the summary output prints that name.
C30_MethodOnEveryFoundResult ==
  (CheckDone /\ ~cresult.thrown /\ cresult.found) =>
    /\ {"method", "discoveryMethod", "manifestUrl", "httpStatus"} \subseteq cresult.fields
    /\ cresult.method = cresult.discoveryMethod
    /\ cresult.discoveryMethod \in DiscoveryMethods
    /\ MethodLine(cresult) = "Method: " \o cresult.discoveryMethod

\* A manifest found through the Link header of the HEAD response.
C30_FoundByHeader ==
  /\ CheckDone
  /\ cresult.found
  /\ cresult.method = "http-header"
  /\ cresult.discoveryMethod = "http-header"
  /\ cresult.httpStatus = 200
  /\ MethodLine(cresult) = "Method: http-header"
====
